---- MODULE Spec2Model ----
(***************************************************************************)
(* A model of the usbvfiod XHCI controller emulation: the event ring, the  *)
(* command ring, the transfer rings kept in endpoint contexts, the MMIO    *)
(* dispatcher (XhciController behind its mutex), the endpoint worker       *)
(* threads, the device contexts, and the Bus, DynamicBus and RegisterSet   *)
(* the controller is built on.                                             *)
(*                                                                         *)
(* Specifications                                                          *)
(*   SpecER    threads enqueueing events under the event-ring mutex, the   *)
(*             driver consuming them and writing ERDP                      *)
(*   SpecBytes one EventRing::enqueue at the granularity of the byte       *)
(*             stores of BusDevice::write_bulk, with the driver reading    *)
(*   SpecSys   the dispatcher (doorbells, commands, control endpoint) and  *)
(*             the endpoint workers                                        *)
(*   SpecLive  the bring-up, Normal TRBs and endpoint doorbells, with the  *)
(*             fairness of OS thread scheduling                            *)
(*   SpecSlots Enable Slot commands on DeviceSlotManagers of several sizes *)
(*   SpecRun   writes to USBCMD (XhciController::run)                      *)
(*   SpecXfer  SpecLive without fairness, with more Normal TRBs            *)
(*   SpecCfg   writes to ERSTSZ, ERSTBA and ERDP on a new EventRing        *)
(*   SpecCmd   next_command_trb on a command ring of two segments that the *)
(*             driver fills                                                *)
(*   SpecCrcr  writes to CRCR (CommandRing::control)                       *)
(*   SpecReq   next_request on a control transfer ring of two segments     *)
(*   SpecCtx   Address Device and Configure Endpoint on device contexts    *)
(*             in guest memory, byte by byte                               *)
(*   SpecBus   add, read and write on a Bus                                *)
(*   SpecDyn   threads adding to a DynamicBus while another reads          *)
(*   SpecReg   bus writes to a RegisterSet                                 *)
(*   SpecPart  next_request on control requests the driver posts one TRB   *)
(*             at a time                                                   *)
(*   SpecTear  next_command_trb reading a slot the driver is writing       *)
(*   SpecPort  set_device and guest writes to the PORTSC registers         *)
(*   SpecSeg   ERSTSZ rewritten on an event ring in use                    *)
(*   SpecStop  SpecXfer with Stop Endpoint commands                        *)
(*   SpecCompl handle_command on commands of every variant and slot id     *)
(*   SpecRoute devices attached, slots enabled, doorbells of the slots     *)
(*   SpecIrq   set_irqs and the interrupt lines of controller and workers  *)
(***************************************************************************)
EXTENDS Integers, Sequences, FiniteSets, TLC

VARIABLES
    event_ring,     \* EventRing fields (rings.rs), guarded by its mutex
    mem_er,         \* guest memory of the event ring segments: slot address -> 16 bytes
    lock_er,        \* holder of the Arc<Mutex<EventRing>>, or "none"
    poisoned_er,    \* a thread panicked while holding the event-ring mutex
    pc,             \* per thread: position in its code
    cur,            \* per thread: the EventTrb being enqueued / the MMIO value
    wr_idx,         \* per thread: index of the next byte store of write_bulk
    drv,            \* the guest driver's event-ring consumer state
    issued,         \* ghost: number of enqueue calls started
    live,           \* ghost: events written and not yet consumed by the driver
    done,           \* ghost: number of enqueue calls that advanced the ring
    ctl_lock,       \* holder of the controller mutex (Mutex<XhciController>), or "none"
    command_ring,   \* CommandRing fields: running, dequeue_pointer, cycle_state
    used_slots,     \* DeviceSlotManager::used_slots
    endpoints,      \* NusbDeviceWrapper::endpoints: ids whose Sender exists
    wakeup,         \* per endpoint: messages buffered in the mpsc wakeup channel
    ring_mem,       \* guest memory of the command and transfer rings: address -> TRB
    ep_ctx,         \* guest memory of the device context: endpoint contexts
    drvq,           \* the guest driver's producer state for the rings it fills
    hist,           \* ghost: what has happened so far (for stating the claims)
    irqs,           \* ghost: per thread, calls of interrupt_line.interrupt()
    num_slots,      \* DeviceSlotManager::num_slots
    running,        \* XhciController::running
    dev_mem,        \* guest memory: the DCBAA and the device contexts, by bytes
    bus,            \* a Bus (bus.rs): its size and its devices with their ranges
    dynamic_bus,    \* a DynamicBus: segments, their mutex, the published Bus
    register_set,   \* a RegisterSet: its bytes (the masks are fixed at build time)
    xhci            \* further fields of XhciController: portsc_usb3, device_slots,
                    \* interrupt_line, and what each worker thread was handed

\* the state that only SpecSys and SpecLive change
sysvars == << ctl_lock, command_ring, used_slots, endpoints, wakeup, ring_mem,
              ep_ctx, drvq, hist >>

\* controller state that SpecER, SpecBytes, SpecSys and SpecLive leave alone
regvars == << num_slots, running, dev_mem, bus, dynamic_bus, register_set, xhci >>

vars == << event_ring, mem_er, lock_er, poisoned_er, pc, cur, wr_idx, drv,
           issued, live, done, ctl_lock, command_ring, used_slots, endpoints,
           wakeup, ring_mem, ep_ctx, drvq, hist, irqs, num_slots, running,
           dev_mem, bus, dynamic_bus, register_set, xhci >>

----------------------------------------------------------------------------
(* Bounds of the model *)

\* total number of EventRing::enqueue calls in SpecER
MaxEnq == 5

\* number of events enqueued in SpecBytes
MaxByteEnq == 2

\* SpecSys: commands, control requests and Normal TRBs the driver posts,
\* doorbell writes, and events the driver takes off the event ring
MaxCmds == 4
MaxCtl == 2
MaxXfer == 1
MaxDoorbells == 4
MaxConsume == 1

\* SpecRun: number of writes to USBCMD
MaxUsbcmd == 4

\* SpecXfer: Normal TRBs the driver posts
MaxBulk == 3

\* SpecStop: Normal TRBs the driver posts on the bulk rings
MaxStopBulk == 2

\* SpecRoute: doorbell writes for enabled slots
MaxRouteDoorbells == 2

\* SpecCompl: commands handled
MaxComplCmds == 3

\* SpecIrq: calls of set_irqs, and interrupts raised
MaxSetIrqs == 2
MaxIrqs == 3

\* SpecCmd: commands the driver posts on the two-segment command ring
MaxCmdPosts == 4

\* SpecCtx: Address Device and Configure Endpoint commands
MaxCtxCmds == 2
MaxBusAdds == 2
MaxDynAdds == 3
MaxDynReads == 1
MaxRegWrites == 3
\* the largest address: u64::MAX of an address space scaled to 5 bits
U64_MAX == 31

\* SpecReq: control requests the driver posts
MaxReqs == 3

\* SpecCrcr: number of writes to CRCR
MaxCrcr == 2

\* SpecCfg: number of writes to ERSTSZ and ERSTBA
MaxCfgWrites == 4

\* SpecSlots: largest num_slots a DeviceSlotManager is constructed with
MaxNumSlots == 3

\* ERSTSZ as the driver wrote it: event ring segments in use in SpecER and
\* SpecBytes, and in SpecSys
ErstSizeER == 2
ErstSizeSys == 3

----------------------------------------------------------------------------
(* Program constants *)

TRB_SIZE == 16
TRANSFER_EVENT == 32
COMMAND_COMPLETION_EVENT == 33
PORT_STATUS_CHANGE_EVENT == 34

\* trb.rs CompletionCode (discriminants count from Invalid = 0)
CompletionCode == [Invalid |-> 0, Success |-> 1, UsbTransactionError |-> 4,
                   NoSlotsAvailableError |-> 9]

\* The Event Ring Segment Table the driver placed in guest memory
\* (entries: 8-byte base at +0, 4-byte size at +8).  ERSTSZ, written by the
\* driver, says how many of its entries the ring uses.
ERST == << [base |-> 48, size |-> 2], [base |-> 96, size |-> 1],
           [base |-> 128, size |-> 8] >>

\* the threads of the process
Mmio == "mmio"
Workers == {"ep2", "ep3"}
Threads == {Mmio} \cup Workers
endpoint_id == [ep2 |-> 2, ep3 |-> 3]

----------------------------------------------------------------------------
(* Guest memory helpers *)

\* byte i of the little-endian representation of v
RECURSIVE le_byte(_, _)
le_byte(v, i) == IF i = 0 THEN v % 256 ELSE le_byte(v \div 256, i - 1)

zeroed_trb_buffer == [i \in 0..15 |-> 0]

\* slot addresses of the first n segments of the table, in ring order
RECURSIVE SegSlots(_, _)
SegSlots(e, k) == IF k = e.size THEN << >>
                  ELSE << e.base + k * TRB_SIZE >> \o SegSlots(e, k + 1)

RECURSIVE RingSlotsFrom(_, _)
RingSlotsFrom(i, n) == IF i > n THEN << >>
                       ELSE SegSlots(ERST[i], 0) \o RingSlotsFrom(i + 1, n)

\* the slots of the event ring as configured (erst_size segments)
RingSlots == RingSlotsFrom(1, event_ring.erst_size)
RingLen == Len(RingSlots)
SlotAddrs == LET all == RingSlotsFrom(1, Len(ERST))
             IN { all[i] : i \in 1..Len(all) }
SlotIndex(a) == CHOOSE i \in 1..RingLen : RingSlots[i] = a
NextSlot(a) == RingSlots[(SlotIndex(a) % RingLen) + 1]

\* dma_bus.read of ERST entry i (0-based): base address and size
erst_base(i) == ERST[i + 1].base
erst_size_of(i) == ERST[i + 1].size

\* BusDevice::write_bulk: one relaxed single-byte store per byte, ascending.
write_byte(m, addr, data, i) == [m EXCEPT ![addr][i] = data[i]]

RECURSIVE write_bulk_from(_, _, _, _)
write_bulk_from(m, addr, data, i) ==
    IF i > 15 THEN m
    ELSE write_bulk_from(write_byte(m, addr, data, i), addr, data, i + 1)

write_bulk(m, addr, data) == write_bulk_from(m, addr, data, 0)

----------------------------------------------------------------------------
(* TRB codec (trb.rs) *)

\* a constructor that takes slot id and endpoint id in the other order
new_transfer_event_trb_swapped(pointer, residual, code, event_data, ep, slot) ==
    [kind |-> "Transfer", pointer |-> pointer, residual |-> residual,
     code |-> code, event_data |-> event_data, endpoint_id |-> slot,
     slot_id |-> ep]

new_transfer_event_trb(pointer, residual, code, event_data, ep, slot) ==
    [kind |-> "Transfer", pointer |-> pointer, residual |-> residual,
     code |-> code, event_data |-> event_data, endpoint_id |-> ep,
     slot_id |-> slot]

new_command_completion_event_trb(pointer, param, code, slot) ==
    [kind |-> "CommandCompletion", pointer |-> pointer, param |-> param,
     code |-> code, slot_id |-> slot]

new_port_status_change_event_trb(port) ==
    [kind |-> "PortStatusChange", port_id |-> port]

\* a layout that leaves the completion code out
transfer_to_bytes_no_code(d) ==
    [i \in 0..15 |->
        IF i < 8 THEN le_byte(d.pointer, i)
        ELSE IF i < 11 THEN le_byte(d.residual, i - 8)
        ELSE IF i = 12 THEN (IF d.event_data THEN 4 ELSE 0)
        ELSE IF i = 13 THEN TRANSFER_EVENT * 4
        ELSE IF i = 14 THEN d.endpoint_id
        ELSE IF i = 15 THEN d.slot_id
        ELSE 0]

transfer_to_bytes(d) ==
    [i \in 0..15 |->
        IF i < 8 THEN le_byte(d.pointer, i)
        ELSE IF i < 11 THEN le_byte(d.residual, i - 8)
        ELSE IF i = 11 THEN d.code
        ELSE IF i = 12 THEN (IF d.event_data THEN 4 ELSE 0)
        ELSE IF i = 13 THEN TRANSFER_EVENT * 4
        ELSE IF i = 14 THEN d.endpoint_id
        ELSE d.slot_id]

command_completion_to_bytes(d) ==
    [i \in 0..15 |->
        IF i < 8 THEN le_byte(d.pointer, i)
        ELSE IF i < 11 THEN le_byte(d.param, i - 8)
        ELSE IF i = 11 THEN d.code
        ELSE IF i = 13 THEN COMMAND_COMPLETION_EVENT * 4
        ELSE IF i = 15 THEN d.slot_id
        ELSE 0]

port_status_change_to_bytes(d) ==
    [i \in 0..15 |->
        IF i = 3 THEN d.port_id
        ELSE IF i = 11 THEN CompletionCode.Success
        ELSE IF i = 13 THEN PORT_STATUS_CHANGE_EVENT * 4
        ELSE 0]

\* a layout that always sets the cycle bit
to_bytes_cycle_always_set(trb, cycle_bit) ==
    LET trb_data == CASE trb.kind = "Transfer" -> transfer_to_bytes(trb)
                      [] trb.kind = "CommandCompletion" -> command_completion_to_bytes(trb)
                      [] OTHER -> port_status_change_to_bytes(trb)
    IN [trb_data EXCEPT ![12] = ((trb_data[12] \div 2) * 2) + 1]

\* EventTrb::to_bytes: lay out the variant, then stamp the cycle bit
to_bytes(trb, cycle_bit) ==
    LET trb_data == CASE trb.kind = "Transfer" -> transfer_to_bytes(trb)
                      [] trb.kind = "CommandCompletion" -> command_completion_to_bytes(trb)
                      [] OTHER -> port_status_change_to_bytes(trb)
    IN [trb_data EXCEPT ![12] = ((trb_data[12] \div 2) * 2) + (IF cycle_bit THEN 1 ELSE 0)]

\* what the driver decodes from the 16 bytes of an event
cycle_bit_of(bytes) == bytes[12] % 2 = 1
trb_type_of(bytes) == bytes[13] \div 4
RECURSIVE le_value(_, _, _)
le_value(bytes, lo, hi) ==
    IF lo > hi THEN 0 ELSE bytes[lo] + 256 * le_value(bytes, lo + 1, hi)
pointer_of(bytes) == le_value(bytes, 0, 7)

----------------------------------------------------------------------------
(* EventRing (rings.rs) *)

\* EventRing::new followed by the driver's ERSTSZ and ERSTBA writes
\* (set_erst_size, configure) and its initial ERDP write.
EventRingConfigured(erstsz) ==
    [base_address |-> 0,
     dequeue_pointer |-> erst_base(0),
     enqueue_pointer |-> erst_base(0),
     trb_count |-> erst_size_of(0),
     erst_count |-> 0,
     cycle_state |-> TRUE,
     erst_size |-> erstsz]

check_event_ring_full_plus16(er) ==
    er.dequeue_pointer = er.enqueue_pointer + TRB_SIZE

\* a full test that never reports a full ring
check_event_ring_never_full(er) == FALSE

check_event_ring_full(er) ==
    IF er.trb_count = 1
    THEN LET next_seg == (er.erst_count + 1) % er.erst_size
         IN er.dequeue_pointer = erst_base(next_seg)
    ELSE er.dequeue_pointer = er.enqueue_pointer + TRB_SIZE

\* an advance that flips the producer cycle at every change of segment
advance_segment_or_wrap_flip_always(er) ==
    LET cnt == er.erst_count + 1
        idx == IF cnt = er.erst_size THEN 0 ELSE cnt
    IN [er EXCEPT !.erst_count = idx,
                  !.cycle_state = ~er.cycle_state,
                  !.enqueue_pointer = erst_base(idx),
                  !.trb_count = erst_size_of(idx)]

advance_segment_or_wrap(er) ==
    LET cnt == er.erst_count + 1
        wrapped == cnt = er.erst_size
        idx == IF wrapped THEN 0 ELSE cnt
    IN [er EXCEPT !.erst_count = idx,
                  !.cycle_state = IF wrapped THEN ~er.cycle_state ELSE er.cycle_state,
                  !.enqueue_pointer = erst_base(idx),
                  !.trb_count = erst_size_of(idx)]

advance_enqueue_pointer(er) ==
    IF er.trb_count = 0
    THEN advance_segment_or_wrap(er)
    ELSE [er EXCEPT !.enqueue_pointer = er.enqueue_pointer + TRB_SIZE]

update_dequeue_pointer(er, erdp) == [er EXCEPT !.dequeue_pointer = erdp]

----------------------------------------------------------------------------
(* Command ring, transfer rings and endpoint contexts in guest memory *)

\* constants.rs trb_types
NORMAL == 1
SETUP_STAGE == 2
DATA_STAGE == 3
STATUS_STAGE == 4
LINK == 6
ENABLE_SLOT_COMMAND == 9
ADDRESS_DEVICE_COMMAND == 11
CONFIGURE_ENDPOINT_COMMAND == 12
NO_OP_COMMAND == 23
STOP_ENDPOINT_COMMAND == 15

MAX_SLOTS == 1

\* endpoint_state (device_slots.rs)
DISABLED == 0
RUNNING == 1
STOPPED == 3

\* The rings the driver laid out: ring 0 is the command ring, ring ep is
\* the transfer ring of endpoint ep (device context index; 1 is the control
\* endpoint).  Each has RingNormal TRB slots followed by a Link TRB back to
\* its base with the toggle-cycle flag.
RingNormal == 4
CmdRingBase == 256
XferRingBase(ep) == CmdRingBase + CmdRingBase * ep
EndpointIds == {1, 2, 3}
RingIds == {0} \cup EndpointIds
RingBase(r) == IF r = 0 THEN CmdRingBase ELSE XferRingBase(r)
LinkAddr(r) == RingBase(r) + RingNormal * TRB_SIZE
RingAddrs(r) == { RingBase(r) + k * TRB_SIZE : k \in 0..RingNormal }
AllRingAddrs == UNION { RingAddrs(r) : r \in RingIds }

\* the endpoint a worker thread serves, and the worker of an endpoint
worker_of(ep) == CHOOSE w \in Workers : endpoint_id[w] = ep

\* a TRB as the parsers see it: type (byte 13 bits 2..7), cycle bit, the
\* pointer field, and the one flag the variant carries (Link: toggle_cycle;
\* Normal: interrupt_on_completion; Setup Stage: direction device-to-host;
\* Data Stage: chain)
Trb(type, cycle, ptr, flag) ==
    [type |-> type, cycle |-> cycle, ptr |-> ptr, flag |-> flag]
EmptyTrb == Trb(0, FALSE, 0, FALSE)

\* EndpointContext: the 8-byte field at +8 holds dequeue pointer | cycle
get_dequeue_pointer_and_cycle_state(ctx) ==
    [dequeue_pointer |-> (ctx.deq \div TRB_SIZE) * TRB_SIZE,
     cycle_state |-> ctx.deq % 2 = 1]

set_dequeue_pointer_and_cycle_state(ctx, dequeue_pointer, cycle_state) ==
    [ctx EXCEPT !.deq = dequeue_pointer + (IF cycle_state THEN 1 ELSE 0)]

\* The input contexts the driver prepared, one per endpoint ep, at
\* InputContextPtr(ep): add flags A0 and A<ep>, and the endpoint context
\* with TR Dequeue Pointer = base of the ring, DCS = 1
InputContextBase == 4096
InputContextPtr(ep) == InputContextBase * ep
input_context(ep) == [state |-> DISABLED, deq |-> XferRingBase(ep) + 1]
InputCtxMem ==
    [p \in { InputContextPtr(ep) : ep \in EndpointIds } |->
        [add_flags |-> {0, p \div InputContextBase},
         ctx |-> input_context(p \div InputContextBase)]]

\* the driver writes one TRB at its enqueue position of ring r; when the
\* position reaches the Link TRB it hands the Link TRB over as well, wraps
\* and toggles its producer cycle
DrvPut(st, r, type, ptr, flag) ==
    LET at == st.q.enq[r]
        cyc == st.q.cycle[r]
        mem1 == [st.mem EXCEPT ![at] = Trb(type, cyc, ptr, flag)]
        nxt == at + TRB_SIZE
        wrap == nxt = LinkAddr(r)
    IN [mem |-> IF wrap
                THEN [mem1 EXCEPT ![nxt] = Trb(LINK, cyc, RingBase(r), TRUE)]
                ELSE mem1,
        q |-> [st.q EXCEPT !.enq[r] = IF wrap THEN RingBase(r) ELSE nxt,
                           !.cycle[r] = IF wrap THEN ~cyc ELSE cyc,
                           !.posted[r] = st.q.posted[r] + 1]]

\* TRBs of ring r the consumer has taken so far
Consumed(r) == IF r = 0 THEN Len(hist.yielded) ELSE hist.fetched[r]

\* the driver finds room for n more TRBs on ring r
HasRoom(r, n) == drvq.posted[r] - Consumed(r) + n <= RingNormal

\* Device contexts (device_slots.rs): 32 entries of 32 bytes, the slot
\* context first; an input context is an input control context followed by
\* the 32 entries
CONTEXT_SIZE == 32
ContextEntries == 32
DeviceContextBytes == 0..(ContextEntries * CONTEXT_SIZE - 1)

\* guest addresses of the device contexts the driver allocated
DevCtxBase == 16384
DevCtxAddrs == { DevCtxBase, DevCtxBase + ContextEntries * CONTEXT_SIZE }

\* the guest memory the driver prepared: DCBAA entry slot_id holds the
\* address of a device context (flip exchanges the two), and the contexts
\* hold bytes left from an earlier use
DevMemInit(flip) ==
    [ctx |-> [a \in DevCtxAddrs |->
                 [j \in DeviceContextBytes |-> (j * 11 + a \div CONTEXT_SIZE) % 256]],
     dcbaa |-> [slot_id \in 1..2 |->
                   IF slot_id = flip THEN DevCtxBase
                   ELSE DevCtxBase + ContextEntries * CONTEXT_SIZE]]

\* the specifications that do not look at the device contexts by bytes leave
\* that part of guest memory out
DevMemUnused == [ctx |-> << >>, dcbaa |-> << >>]
\* the value of bus, dynamic_bus, register_set and xhci in the specifications that
\* have none
BusUnused == << >>

\* nothing has happened yet
HistInit ==
    [yielded |-> << >>,          \* addresses of the commands next_command_trb returned
     yielded_types |-> << >>,    \* and their TRB types
     fetched |-> [ep \in EndpointIds |-> 0],
     rung_at |-> [ep \in EndpointIds |-> 0],
     stop_cmd |-> [ep \in EndpointIds |-> 0],
     unfenced |-> [t \in Threads |-> {}],
     unfenced_enq |-> {},
     overlap |-> {},
     failed |-> {},
     usbcmd |-> << >>,           \* values written to USBCMD
     status_at |-> << >>,        \* addresses of the Status Stage TRBs the driver posted
     control_calls |-> << >>,    \* request.address of each device.control_transfer call
     normal |-> [ep \in EndpointIds |-> << >>],  \* Normal TRBs the driver posted
     cfg |-> << >>,              \* writes to ERSTSZ and ERSTBA: register, value
     cmd_posted |-> << >>,       \* commands the driver posted: address, type
     links |-> << >>,            \* addresses of the Link TRBs the driver posted
     chased |-> << >>,           \* addresses of the Link TRBs next_command_trb followed
     cmd_last |-> [tick |-> FALSE, res |-> "none", address |-> 0],
                                 \* what the last next_command_trb call returned
     crcr |-> << >>,             \* values written to CRCR
     req_posted |-> << >>,       \* control requests the driver posted
     req_taken |-> 0,            \* TRBs of the control ring next_request has taken
     req_last |-> [tick |-> FALSE, res |-> "none"],
                                 \* what the last next_request call returned
     ctx_cmds |-> << >>,         \* Address Device and Configure Endpoint commands handled
     bus_last |-> [tick |-> FALSE, op |-> "none"],
                                 \* the last call on the Bus and what came of it
     dyn_published |-> << >>,    \* the buses stored in DynamicBus::bus, oldest first
     dyn_ok |-> {},              \* the segments whose add has returned Ok
     dyn_adds |-> 0,             \* calls of DynamicBus::add
     dyn_add_last |-> [tick |-> FALSE, res |-> "none"],
                                 \* the last add that returned, and its result
     dyn_reads |-> 0,            \* reads and writes on the DynamicBus
     dyn_last |-> [tick |-> FALSE, op |-> "none"],
                                 \* the last read or write that was routed
     reg_writes |-> << >>,       \* the bus writes to the RegisterSet: addr, size, val
     portsc_made |-> << >>,      \* the value each PORTSC register was made with
     attached |-> << >>,         \* the devices handed to set_device, oldest first
     portsc_writes |-> 0,        \* guest writes to PORTSC registers
     portsc_last |-> [tick |-> FALSE, array |-> "none"],
                                 \* the last guest write to a PORTSC register
     seg_writes |-> 0,           \* writes to ERSTSZ on a ring in use
     seg_last |-> [tick |-> FALSE, op |-> "none"],
                                 \* the last ERSTSZ write or enqueue on that ring
     part_posted |-> << >>,      \* TRBs the driver posted one at a time: type, address
     tear_doorbells |-> 0,       \* writes to doorbell 0 while the driver writes TRBs
     tear_accepted |-> {},       \* the buffers next_trb_buffer returned as fresh
     compl_cmds |-> 0,           \* commands handed to handle_command with their slot id
     compl_last |-> [tick |-> FALSE, variant |-> "none"],
                                 \* the last of them, and where its event went
     port_device |-> << >>,      \* the device set_device connected to each root-hub port
     slot_port |-> << >>,        \* the port the driver addressed when it obtained each slot
     route_doorbells |-> 0,      \* doorbell writes of the driver for its slots
     route_last |-> [tick |-> FALSE, slot_id |-> 0],
                                 \* the last of them, and the device that received it
     irq_installed |-> "none",   \* the eventfd the last set_irqs installed
     irq_sets |-> 0,             \* calls of set_irqs
     irq_raised |-> << >>]       \* calls of interrupt(): thread, line written, eventfd installed

\* state after XhciController::new, the driver's CRCR write
\* (CommandRing::control) and its ring layout; no slot is enabled
SysVarsInit ==
    /\ ctl_lock = "none"
    /\ command_ring = [running |-> FALSE, dequeue_pointer |-> CmdRingBase,
                       cycle_state |-> TRUE]
    /\ used_slots = {}
    /\ endpoints = {}
    /\ wakeup = [ep \in EndpointIds |-> 0]
    /\ ring_mem = [a \in AllRingAddrs |-> EmptyTrb]
    /\ ep_ctx = [ep \in EndpointIds |-> [state |-> DISABLED, deq |-> 0]]
    /\ drvq = [enq |-> [r \in RingIds |-> RingBase(r)],
               cycle |-> [r \in RingIds |-> TRUE],
               posted |-> [r \in RingIds |-> 0],
               rings |-> 0,
               requests |-> 0]
    /\ hist = HistInit
    /\ irqs = [t \in Threads |-> 0]
    /\ num_slots = MAX_SLOTS
    /\ running = FALSE
    /\ dev_mem = DevMemUnused
    /\ xhci = BusUnused
    /\ bus = BusUnused
    /\ dynamic_bus = BusUnused
    /\ register_set = BusUnused

----------------------------------------------------------------------------
(* Ring consumers (rings.rs) *)

\* a freshness test that ignores the cycle bit
command_trb_always_fresh(cr, mem) == TRUE

\* CommandRing::next_trb_buffer: the TRB at the dequeue pointer is fresh
command_trb_fresh(cr, mem) == mem[cr.dequeue_pointer].cycle = cr.cycle_state

\* a Link chase that leaves the consumer cycle alone
next_command_trb_no_toggle(cr, mem) ==
    IF ~command_trb_fresh(cr, mem)
    THEN [res |-> "None", ring |-> cr, address |-> 0, trb |-> EmptyTrb]
    ELSE LET first_trb == mem[cr.dequeue_pointer]
             cr1 == IF first_trb.type = LINK
                    THEN [cr EXCEPT !.dequeue_pointer = first_trb.ptr,
                                    !.cycle_state = cr.cycle_state]
                    ELSE cr
             final_trb == mem[cr1.dequeue_pointer]
         IN IF first_trb.type = LINK /\ ~command_trb_fresh(cr1, mem)
            THEN [res |-> "None", ring |-> cr1, address |-> 0, trb |-> EmptyTrb]
            ELSE IF first_trb.type = LINK /\ final_trb.type = LINK
            THEN [res |-> "Panic", ring |-> cr1, address |-> 0, trb |-> EmptyTrb]
            ELSE [res |-> "Some",
                  ring |-> [cr1 EXCEPT !.dequeue_pointer = cr1.dequeue_pointer + TRB_SIZE],
                  address |-> cr1.dequeue_pointer,
                  trb |-> final_trb]

\* CommandRing::next_command_trb.  res is "None", "Some" or "Panic" (a Link
\* TRB directly after a Link TRB); ring is the CommandRing afterwards.
next_command_trb(cr, mem) ==
    IF ~command_trb_fresh(cr, mem)
    THEN [res |-> "None", ring |-> cr, address |-> 0, trb |-> EmptyTrb]
    ELSE LET first_trb == mem[cr.dequeue_pointer]
             cr1 == IF first_trb.type = LINK
                    THEN [cr EXCEPT !.dequeue_pointer = first_trb.ptr,
                                    !.cycle_state = IF first_trb.flag
                                                    THEN ~cr.cycle_state
                                                    ELSE cr.cycle_state]
                    ELSE cr
             final_trb == mem[cr1.dequeue_pointer]
         IN IF first_trb.type = LINK /\ ~command_trb_fresh(cr1, mem)
            THEN [res |-> "None", ring |-> cr1, address |-> 0, trb |-> EmptyTrb]
            ELSE IF first_trb.type = LINK /\ final_trb.type = LINK
            THEN [res |-> "Panic", ring |-> cr1, address |-> 0, trb |-> EmptyTrb]
            ELSE [res |-> "Some",
                  ring |-> [cr1 EXCEPT !.dequeue_pointer = cr1.dequeue_pointer + TRB_SIZE],
                  address |-> cr1.dequeue_pointer,
                  trb |-> final_trb]

\* TransferRing::next_trb_buffer: the TRB at the context's dequeue pointer
\* is fresh
transfer_trb_fresh(ctx, mem) ==
    LET st == get_dequeue_pointer_and_cycle_state(ctx)
    IN mem[st.dequeue_pointer].cycle = st.cycle_state

\* TransferRing::next_transfer_trb up to its last statement.  ctx is the
\* endpoint context after the stores made so far (following a Link TRB
\* stores the new position at once); final is what the closing
\* set_dequeue_pointer_and_cycle_state will store.
next_transfer_trb(ctx, mem) ==
    IF ~transfer_trb_fresh(ctx, mem)
    THEN [res |-> "None", ctx |-> ctx, final |-> ctx, address |-> 0, trb |-> EmptyTrb]
    ELSE LET st == get_dequeue_pointer_and_cycle_state(ctx)
             first_trb == mem[st.dequeue_pointer]
             ctx1 == IF first_trb.type = LINK
                     THEN set_dequeue_pointer_and_cycle_state(ctx, first_trb.ptr,
                              IF first_trb.flag THEN ~st.cycle_state ELSE st.cycle_state)
                     ELSE ctx
             st1 == get_dequeue_pointer_and_cycle_state(ctx1)
             final_trb == mem[st1.dequeue_pointer]
         IN IF first_trb.type = LINK /\ ~transfer_trb_fresh(ctx1, mem)
            THEN [res |-> "None", ctx |-> ctx1, final |-> ctx1, address |-> 0,
                  trb |-> EmptyTrb]
            ELSE IF first_trb.type = LINK /\ final_trb.type = LINK
            THEN [res |-> "Panic", ctx |-> ctx1, final |-> ctx1, address |-> 0,
                  trb |-> EmptyTrb]
            ELSE [res |-> "Some", ctx |-> ctx1,
                  final |-> set_dequeue_pointer_and_cycle_state(ctx1,
                               st1.dequeue_pointer + TRB_SIZE, st1.cycle_state),
                  address |-> st1.dequeue_pointer,
                  trb |-> final_trb]

\* the result of a request parse: res is "None", "Err", "Panic" or "Ok"
Request(res, ctx, n, address, d2h, data) ==
    [res |-> res, ctx |-> ctx, n |-> n, address |-> address, d2h |-> d2h,
     data |-> data]

\* an error return that puts back the endpoint context the call started with
error_return_rewinds(before, fetched) == before

\* return Some(Err(..)): the endpoint context is left as the fetches made
\* so far stored it
error_return(before, fetched) == fetched

\* the RequestParseError of a call that returns Some(Err(..))
RequestParseError(ctx, mem) ==
    LET r1 == next_transfer_trb(ctx, mem)
        r2 == next_transfer_trb(r1.final, mem)
        r3 == next_transfer_trb(r2.final, mem)
    IN IF r1.trb.type # SETUP_STAGE THEN "UnexpectedTrbType"
       ELSE IF r2.res = "None" THEN "MissingTrb"
       ELSE IF r2.trb.type # DATA_STAGE THEN "UnexpectedTrbType"
       ELSE IF r3.res = "None" THEN "MissingTrb"
       ELSE "UnexpectedTrbType"

\* TransferRing::next_request: Setup, optional Data, Status Stage TRBs.
\* n counts the TRBs taken from the ring; data is the presence of a data
\* pointer (request.data is Some).
next_request(ctx, mem) ==
    LET r1 == next_transfer_trb(ctx, mem)
        r2 == next_transfer_trb(r1.final, mem)
        r3 == next_transfer_trb(r2.final, mem)
    IN IF r1.res = "None" THEN Request("None", r1.ctx, 0, 0, FALSE, FALSE)
       ELSE IF r1.res = "Panic" THEN Request("Panic", r1.ctx, 0, 0, FALSE, FALSE)
       ELSE IF r1.trb.type # SETUP_STAGE
            THEN Request("Err", error_return(ctx, r1.final), 1, 0, FALSE, FALSE)
       ELSE IF r2.res = "None" THEN Request("Err", error_return(ctx, r2.ctx), 1, 0, FALSE, FALSE)
       ELSE IF r2.res = "Panic" THEN Request("Panic", r2.ctx, 1, 0, FALSE, FALSE)
       ELSE IF r2.trb.type = STATUS_STAGE
            THEN Request("Ok", r2.final, 2, r2.address, r1.trb.flag, FALSE)
       ELSE IF r2.trb.type # DATA_STAGE
            THEN Request("Err", error_return(ctx, r2.final), 2, 0, FALSE, FALSE)
       ELSE IF r2.trb.flag THEN Request("Panic", r2.final, 2, 0, FALSE, FALSE)
       ELSE IF r3.res = "None" THEN Request("Err", error_return(ctx, r3.ctx), 2, 0, FALSE, FALSE)
       ELSE IF r3.res = "Panic" THEN Request("Panic", r3.ctx, 2, 0, FALSE, FALSE)
       ELSE IF r3.trb.type = STATUS_STAGE
            THEN Request("Ok", r3.final, 3, r3.address, r1.trb.flag, TRUE)
       ELSE Request("Err", error_return(ctx, r3.final), 3, 0, FALSE, FALSE)

----------------------------------------------------------------------------
(* Program order of guest-memory stores and release fences (ghost) *)

\* thread t stores to guest memory: "ctx" the contents of a context (a
\* command handler), "deq" the dequeue-pointer field of an endpoint context
\* (next_transfer_trb), "data" a data buffer
stored(h, t, kind) == [h EXCEPT !.unfenced[t] = @ \cup {kind}]

\* fence(Ordering::Release)
fence(h, t) == [h EXCEPT !.unfenced[t] = {}]

\* thread t calls EventRing::enqueue: stores it made after its last fence
\* are recorded in unfenced_enq
enqueue_called(h, t) ==
    [h EXCEPT !.unfenced_enq = @ \cup { << t, k >> : k \in h.unfenced[t] },
              !.unfenced[t] = {}]

----------------------------------------------------------------------------
(* The event-ring mutex: event_ring.lock().unwrap() and the guard's drop *)

\* a lock that does not exclude a second holder
event_ring_lock_no_exclusion(t) ==
    /\ pc[t] = "lock"
    /\ IF poisoned_er
       THEN /\ pc' = [pc EXCEPT ![t] = "dead"]
            /\ UNCHANGED lock_er
       ELSE /\ lock_er' = t
            /\ pc' = [pc EXCEPT ![t] = IF cur[t].op = "enqueue" THEN "write" ELSE "erdp"]
    /\ UNCHANGED << event_ring, mem_er, poisoned_er, cur, wr_idx, drv, issued, live, done >>
    /\ UNCHANGED << sysvars, irqs >>
    /\ UNCHANGED regvars

\* Mutex::lock blocks while another thread holds the guard; unwrap panics
\* when the mutex is poisoned.
event_ring_lock(t) ==
    /\ pc[t] = "lock"
    /\ IF poisoned_er
       THEN /\ pc' = [pc EXCEPT ![t] = "dead"]
            /\ UNCHANGED lock_er
       ELSE /\ lock_er = "none"
            /\ lock_er' = t
            /\ pc' = [pc EXCEPT ![t] = IF cur[t].op = "enqueue" THEN "write" ELSE "erdp"]
    /\ UNCHANGED << event_ring, mem_er, poisoned_er, cur, wr_idx, drv, issued, live, done >>
    /\ UNCHANGED << sysvars, irqs >>
    /\ UNCHANGED regvars

\* a worker that keeps the guard beyond the statement
event_ring_unlock_worker_keeps(t) ==
    /\ pc[t] = "unlock"
    /\ lock_er' = IF t \in Workers THEN lock_er ELSE "none"
    /\ pc' = [pc EXCEPT ![t] = IF cur[t].op = "enqueue" THEN "irq" ELSE cur[t].ret]
    /\ UNCHANGED << event_ring, mem_er, poisoned_er, cur, wr_idx, drv, issued, live, done >>
    /\ UNCHANGED << sysvars, irqs >>
    /\ UNCHANGED regvars

\* the temporary guard is dropped at the end of the statement
event_ring_unlock(t) ==
    /\ pc[t] = "unlock"
    /\ lock_er' = "none"
    /\ pc' = [pc EXCEPT ![t] = IF cur[t].op = "enqueue" THEN "irq" ELSE cur[t].ret]
    /\ UNCHANGED << event_ring, mem_er, poisoned_er, cur, wr_idx, drv, issued, live, done >>
    /\ UNCHANGED << sysvars, irqs >>
    /\ UNCHANGED regvars

----------------------------------------------------------------------------
(* EventRing::enqueue, executed by the thread holding the mutex *)

\* rings.rs 208-213: the fullness test, then the DMA write of the TRB
enqueue_write(t) ==
    /\ pc[t] = "write"
    /\ IF check_event_ring_full(event_ring)
       THEN \* todo!("The Event Ring is full!") unwinds and poisons the mutex
            /\ pc' = [pc EXCEPT ![t] = "dead"]
            /\ poisoned_er' = TRUE
            /\ lock_er' = "none"
            /\ UNCHANGED << mem_er, live >>
       ELSE /\ mem_er' = write_bulk(mem_er, event_ring.enqueue_pointer,
                                    to_bytes(cur[t].trb, event_ring.cycle_state))
            /\ live' = live \cup {[id |-> cur[t].id, slot |-> event_ring.enqueue_pointer]}
            /\ pc' = [pc EXCEPT ![t] = "advance"]
            /\ UNCHANGED << poisoned_er, lock_er >>
    /\ UNCHANGED << event_ring, cur, wr_idx, drv, issued, done >>
    /\ UNCHANGED << sysvars, irqs >>
    /\ UNCHANGED regvars

\* rings.rs 215-222: trb_count -= 1; advance_enqueue_pointer()
enqueue_advance(t) ==
    /\ pc[t] = "advance"
    /\ event_ring' = advance_enqueue_pointer(
                        [event_ring EXCEPT !.trb_count = event_ring.trb_count - 1])
    /\ done' = done + 1
    /\ pc' = [pc EXCEPT ![t] = "unlock"]
    /\ UNCHANGED << mem_er, lock_er, poisoned_er, cur, wr_idx, drv, issued, live >>
    /\ UNCHANGED << sysvars, irqs >>
    /\ UNCHANGED regvars

\* xhci.rs 582-586: ERDP write under the event-ring mutex
erdp_update(t) ==
    /\ pc[t] = "erdp"
    /\ event_ring' = update_dequeue_pointer(event_ring, cur[t].value)
    /\ pc' = [pc EXCEPT ![t] = "unlock"]
    /\ UNCHANGED << mem_er, lock_er, poisoned_er, cur, wr_idx, drv, issued, live, done >>
    /\ UNCHANGED << sysvars, irqs >>
    /\ UNCHANGED regvars

----------------------------------------------------------------------------
(* SpecER: callers of enqueue, and the guest driver *)

\* the event a caller hands to enqueue: the MMIO thread completes commands,
\* a worker reports transfers (handle_command, transfer_in_worker)
EventOf(t, id) ==
    IF t = Mmio
    THEN new_command_completion_event_trb(TRB_SIZE * id, 0, CompletionCode.Success, 1)
    ELSE new_transfer_event_trb(TRB_SIZE * id, 0, CompletionCode.Success, FALSE,
                                endpoint_id[t], 1)

\* event_ring.lock().unwrap().enqueue(&event) is called
ER_Call(t) ==
    /\ pc[t] = "idle"
    /\ issued < MaxEnq
    /\ issued' = issued + 1
    /\ cur' = [cur EXCEPT ![t] = [op |-> "enqueue", id |-> issued + 1,
                                  trb |-> EventOf(t, issued + 1),
                                  ret |-> "idle"]]
    /\ pc' = [pc EXCEPT ![t] = "lock"]
    /\ UNCHANGED << event_ring, mem_er, lock_er, poisoned_er, wr_idx, drv, live, done >>
    /\ UNCHANGED << sysvars, irqs >>
    /\ UNCHANGED regvars

\* interrupt_line.interrupt() after the enqueue; the caller continues
interrupt(t) ==
    /\ pc[t] = "irq"
    /\ irqs' = [irqs EXCEPT ![t] = irqs[t] + 1]
    /\ pc' = [pc EXCEPT ![t] = cur[t].ret]
    /\ UNCHANGED << event_ring, mem_er, lock_er, poisoned_er, cur, wr_idx, drv,
                    issued, live, done >>
    /\ UNCHANGED sysvars
    /\ UNCHANGED regvars

\* the driver writes its dequeue position to ERDP (write_io, offset::ERDP)
ER_ErdpWrite ==
    /\ pc[Mmio] = "idle"
    /\ drv.deq # event_ring.dequeue_pointer
    /\ cur' = [cur EXCEPT ![Mmio] = [op |-> "erdp", value |-> drv.deq, ret |-> "idle"]]
    /\ pc' = [pc EXCEPT ![Mmio] = "lock"]
    /\ UNCHANGED << event_ring, mem_er, lock_er, poisoned_er, wr_idx, drv,
                    issued, live, done >>
    /\ UNCHANGED << sysvars, irqs >>
    /\ UNCHANGED regvars

\* the driver finds the TRB at its dequeue position owned by it (cycle bit
\* equal to its consumer cycle state) and handles it
DrvConsume ==
    /\ cycle_bit_of(mem_er[drv.deq]) = drv.cycle
    /\ drv' = [drv EXCEPT !.deq = NextSlot(drv.deq),
                          !.cycle = IF NextSlot(drv.deq) = RingSlots[1]
                                    THEN ~drv.cycle ELSE drv.cycle,
                          !.consumed = drv.consumed + 1,
                          !.seen = mem_er[drv.deq]]
    /\ live' = { x \in live : x.slot # drv.deq }
    /\ UNCHANGED << event_ring, mem_er, lock_er, poisoned_er, pc, cur, wr_idx,
                    issued, done >>
    /\ UNCHANGED << sysvars, irqs >>
    /\ UNCHANGED regvars

InitER ==
    /\ event_ring = EventRingConfigured(ErstSizeER)
    /\ mem_er = [a \in SlotAddrs |-> zeroed_trb_buffer]
    /\ lock_er = "none"
    /\ poisoned_er = FALSE
    /\ pc = [t \in Threads |-> "idle"]
    /\ cur = [t \in Threads |-> [op |-> "none"]]
    /\ wr_idx = [t \in Threads |-> 0]
    /\ drv = [deq |-> erst_base(0), cycle |-> TRUE, consumed |-> 0,
              seen |-> zeroed_trb_buffer]
    /\ issued = 0
    /\ live = {}
    /\ done = 0
    /\ SysVarsInit

NextER ==
    \/ \E t \in Threads : ER_Call(t)
    \/ \E t \in Threads : event_ring_lock(t)
    \/ \E t \in Threads : enqueue_write(t)
    \/ \E t \in Threads : enqueue_advance(t)
    \/ \E t \in Threads : erdp_update(t)
    \/ \E t \in Threads : event_ring_unlock(t)
    \/ \E t \in Threads : interrupt(t)
    \/ ER_ErdpWrite
    \/ DrvConsume

SpecER == InitER /\ [][NextER]_vars

----------------------------------------------------------------------------
(* SpecSys: the MMIO thread (PciDevice::write_io on the XhciController) *)

ervars == << event_ring, mem_er, lock_er, poisoned_er, wr_idx, issued, live, done >>

\* a panic of the MMIO thread unwinds out of write_io: the guard of the
\* controller mutex is dropped (the mutex is left poisoned) and the thread
\* is gone
mmio_panic ==
    /\ pc' = [pc EXCEPT ![Mmio] = "dead"]
    /\ ctl_lock' = "none"

\* the Command Completion event handle_command builds, and its enqueue
complete_command(address, code, slot_id) ==
    [op |-> "enqueue", id |-> issued + 1,
     trb |-> new_command_completion_event_trb(address, 0, code, slot_id),
     ret |-> "drain"]

\* write_io(DOORBELL_CONTROLLER): lock the controller, doorbell_controller
doorbell_controller ==
    /\ pc[Mmio] = "idle"
    /\ drvq.rings < MaxDoorbells
    /\ drvq' = [drvq EXCEPT !.rings = @ + 1]
    /\ ctl_lock' = Mmio
    /\ pc' = [pc EXCEPT ![Mmio] = "drain"]
    /\ UNCHANGED << ervars, cur, drv, irqs, command_ring, used_slots, endpoints,
                    wakeup, ring_mem, ep_ctx, hist >>
    /\ UNCHANGED regvars

\* one iteration test of `while let Some(cmd) = next_command_trb()`
drain ==
    /\ pc[Mmio] = "drain"
    /\ LET r == next_command_trb(command_ring, ring_mem)
       IN /\ command_ring' = r.ring
          /\ CASE r.res = "None" ->
                    /\ ctl_lock' = "none"
                    /\ pc' = [pc EXCEPT ![Mmio] = "idle"]
                    /\ UNCHANGED << cur, hist >>
               [] r.res = "Panic" ->
                    /\ mmio_panic
                    /\ UNCHANGED << cur, hist >>
               [] OTHER ->
                    /\ cur' = [cur EXCEPT ![Mmio] = [op |-> "command",
                                                     address |-> r.address,
                                                     trb |-> r.trb]]
                    /\ hist' = [hist EXCEPT !.yielded = Append(@, r.address),
                                             !.yielded_types = Append(@, r.trb.type)]
                    /\ pc' = [pc EXCEPT ![Mmio] = "handle"]
                    /\ UNCHANGED ctl_lock
    /\ UNCHANGED << ervars, drv, irqs, used_slots, endpoints, wakeup, ring_mem,
                    ep_ctx, drvq >>
    /\ UNCHANGED regvars

\* a reservation that hands out the highest unused id
reserve_slot_highest(num, used) ==
    IF \E id \in 1..num : id \notin used
    THEN CHOOSE id \in 1..num :
            id \notin used /\ \A o \in 1..num : o \notin used => id >= o
    ELSE 0

\* DeviceSlotManager::reserve_slot: (1..=num_slots).find(unused), 0 for None
reserve_slot(num, used) ==
    IF \E id \in 1..num : id \notin used
    THEN CHOOSE id \in 1..num :
            id \notin used /\ \A o \in 1..num : o \notin used => id <= o
    ELSE 0

\* the add flags, besides A0, of the input context a command points to
add_flags(input_context_pointer) == InputCtxMem[input_context_pointer].add_flags \ {0}

\* DeviceContext::configure_endpoints: the whole 32-byte endpoint context of
\* every added endpoint is copied from the input context, state set to 1
configure_endpoints(ctxs, input_context_pointer) ==
    [ep \in EndpointIds |->
        IF ep \in add_flags(input_context_pointer)
        THEN [InputCtxMem[input_context_pointer].ctx EXCEPT !.state = RUNNING]
        ELSE ctxs[ep]]

\* the window of a worker's next_transfer_trb between its load of the
\* dequeue-pointer field and its closing store
InRmw(w) == pc[w] = "commit"

\* handle_command: the arm of the command, the release fence, and the call
\* of enqueue for the completion event
handle_command ==
    /\ pc[Mmio] = "handle"
    /\ LET cmd == cur[Mmio]
           type == cmd.trb.type
           slot == reserve_slot(num_slots, used_slots)
           added == add_flags(cmd.trb.ptr)
           spawned == added \ endpoints
       IN CASE type = ENABLE_SLOT_COMMAND ->
                 /\ used_slots' = IF slot # 0 THEN used_slots \cup {slot} ELSE used_slots
                 /\ cur' = [cur EXCEPT ![Mmio] =
                               IF slot # 0
                               THEN complete_command(cmd.address, CompletionCode.Success, slot)
                               ELSE complete_command(cmd.address,
                                        CompletionCode.NoSlotsAvailableError, 0)]
                 /\ hist' = enqueue_called(fence(hist, Mmio), Mmio)
                 /\ pc' = [pc EXCEPT ![Mmio] = "lock"]
                 /\ UNCHANGED << ctl_lock, ep_ctx, endpoints >>
            [] type = ADDRESS_DEVICE_COMMAND /\ 1 \in used_slots /\ added = {1} ->
                 \* DeviceContext::initialize: slot context and EP0 context
                 /\ ep_ctx' = configure_endpoints(ep_ctx, cmd.trb.ptr)
                 /\ cur' = [cur EXCEPT ![Mmio] =
                               complete_command(cmd.address, CompletionCode.Success, 1)]
                 /\ hist' = enqueue_called(fence(stored(hist, Mmio, "ctx"), Mmio), Mmio)
                 /\ pc' = [pc EXCEPT ![Mmio] = "lock"]
                 /\ UNCHANGED << ctl_lock, used_slots, endpoints >>
            [] type = CONFIGURE_ENDPOINT_COMMAND /\ 1 \in used_slots /\ 1 \notin added ->
                 /\ ep_ctx' = configure_endpoints(ep_ctx, cmd.trb.ptr)
                 \* enable_endpoint returns early for an enabled endpoint,
                 \* otherwise it creates the channel and spawns the worker
                 /\ endpoints' = endpoints \cup added
                 /\ cur' = [cur EXCEPT ![Mmio] =
                               complete_command(cmd.address, CompletionCode.Success, 1)]
                 /\ hist' = LET h == enqueue_called(fence(stored(hist, Mmio, "ctx"), Mmio), Mmio)
                            IN [h EXCEPT !.overlap =
                                   @ \cup { ep \in added : InRmw(worker_of(ep)) },
                                         !.stop_cmd = [ep \in EndpointIds |->
                                             IF ep \in added THEN 0 ELSE @[ep]]]
                 /\ pc' = [w \in Threads |->
                              IF w = Mmio THEN "lock"
                              ELSE IF endpoint_id[w] \in spawned THEN "fetch"
                              ELSE pc[w]]
                 /\ UNCHANGED << ctl_lock, used_slots >>
            [] type = STOP_ENDPOINT_COMMAND /\ 1 \in used_slots
                                            /\ cmd.trb.ptr \in EndpointIds ->
                 \* handle_stop_endpoint: set_endpoint_state(endpoint_id,
                 \* STOPPED); the TRB's endpoint id is carried in ptr
                 /\ ep_ctx' = [ep_ctx EXCEPT ![cmd.trb.ptr].state = STOPPED]
                 /\ cur' = [cur EXCEPT ![Mmio] =
                               complete_command(cmd.address, CompletionCode.Success, 1)]
                 /\ hist' = LET h == enqueue_called(fence(stored(hist, Mmio, "ctx"), Mmio), Mmio)
                            IN [h EXCEPT !.stop_cmd[cmd.trb.ptr] = cmd.address]
                 /\ pc' = [pc EXCEPT ![Mmio] = "lock"]
                 /\ UNCHANGED << ctl_lock, used_slots, endpoints >>
            [] OTHER ->
                 \* NoOp and the other unimplemented arms are todo!();
                 \* get_device_context asserts that the slot is in use
                 /\ mmio_panic
                 /\ UNCHANGED << cur, hist, ep_ctx, endpoints, used_slots >>
    /\ issued' = issued + 1
    /\ UNCHANGED << event_ring, mem_er, lock_er, poisoned_er, wr_idx, live, done,
                    drv, irqs, command_ring, wakeup, ring_mem, drvq >>
    /\ UNCHANGED regvars

\* write_io(doorbell of slot 1, value 1): lock the controller,
\* doorbell_device, check_control_endpoint
doorbell_control_endpoint ==
    /\ pc[Mmio] = "idle"
    /\ ep_ctx[1].state = RUNNING
    /\ drvq.rings < MaxDoorbells
    /\ drvq' = [drvq EXCEPT !.rings = @ + 1]
    /\ ctl_lock' = Mmio
    /\ pc' = [pc EXCEPT ![Mmio] = "ctl_req"]
    /\ hist' = [hist EXCEPT !.rung_at[1] = Len(hist.status_at)]
    /\ UNCHANGED << ervars, cur, drv, irqs, command_ring, used_slots, endpoints,
                    wakeup, ring_mem, ep_ctx >>
    /\ UNCHANGED regvars

\* check_control_endpoint up to the request: get_device_context,
\* next_request on the control transfer ring, and the match on its result
check_control_endpoint ==
    /\ pc[Mmio] = "ctl_req"
    /\ LET r == next_request(ep_ctx[1], ring_mem)
       IN IF 1 \notin used_slots
          THEN /\ mmio_panic
               /\ UNCHANGED << cur, hist, ep_ctx >>
          ELSE /\ ep_ctx' = [ep_ctx EXCEPT ![1] = r.ctx]
               /\ hist' = LET h == [hist EXCEPT !.fetched[1] = @ + r.n]
                          IN IF r.ctx # ep_ctx[1] THEN stored(h, Mmio, "deq") ELSE h
               /\ IF r.res = "Ok"
                  THEN /\ cur' = [cur EXCEPT ![Mmio] = [op |-> "control",
                                                        address |-> r.address,
                                                        d2h |-> r.d2h,
                                                        data |-> r.data]]
                       /\ pc' = [pc EXCEPT ![Mmio] = "ctl_xfer"]
                       /\ UNCHANGED ctl_lock
                  ELSE /\ mmio_panic
                       /\ UNCHANGED cur
    /\ UNCHANGED << ervars, drv, irqs, command_ring, used_slots, endpoints, wakeup,
                    ring_mem, drvq >>
    /\ UNCHANGED regvars

\* device.control_transfer (ok: the outcome of control_in / control_out on
\* the real device), then the Transfer Event and the call of enqueue
control_transfer(ok) ==
    /\ pc[Mmio] = "ctl_xfer"
    /\ LET request == cur[Mmio]
           hc == [hist EXCEPT !.control_calls = Append(@, request.address)]
           h0 == IF ok THEN hc ELSE [hc EXCEPT !.failed = @ \cup {request.address}]
           \* device-to-host: write_bulk of the data, release fence
           h1 == IF request.d2h THEN fence(stored(h0, Mmio, "data"), Mmio) ELSE h0
       IN IF request.d2h /\ ~request.data
          THEN \* request.data.unwrap()
               /\ mmio_panic
               /\ hist' = hc
               /\ UNCHANGED << cur, issued >>
          ELSE /\ cur' = [cur EXCEPT ![Mmio] =
                             [op |-> "enqueue", id |-> issued + 1,
                              trb |-> new_transfer_event_trb(request.address, 0,
                                          CompletionCode.Success, FALSE, 1, 1),
                              ret |-> "release"]]
               /\ hist' = enqueue_called(h1, Mmio)
               /\ issued' = issued + 1
               /\ pc' = [pc EXCEPT ![Mmio] = "lock"]
               /\ UNCHANGED ctl_lock
    /\ UNCHANGED << event_ring, mem_er, lock_er, poisoned_er, wr_idx, live, done,
                    drv, irqs, command_ring, used_slots, endpoints, wakeup,
                    ring_mem, ep_ctx, drvq >>
    /\ UNCHANGED regvars

\* a send that reaches only a receiver already parked in recv()
channel_send_if_parked(wk, ep) ==
    IF pc[worker_of(ep)] = "blocked" THEN [wk EXCEPT ![ep] = @ + 1] ELSE wk

\* mpsc Sender::send: the message is buffered until the receiver takes it
channel_send(wk, ep) == [wk EXCEPT ![ep] = @ + 1]

\* write_io(doorbell of slot 1, value ep >= 2): lock the controller,
\* doorbell_device, device.transfer(ep), unlock
doorbell_device(ep) ==
    /\ pc[Mmio] = "idle"
    /\ ep \in EndpointIds \ {1}
    /\ ep_ctx[ep].state = RUNNING
    /\ drvq.rings < MaxDoorbells
    /\ drvq' = [drvq EXCEPT !.rings = @ + 1]
    /\ IF ep \in endpoints /\ pc[worker_of(ep)] # "dead"
       THEN /\ wakeup' = channel_send(wakeup, ep)
            /\ hist' = [hist EXCEPT !.rung_at[ep] = drvq.posted[ep],
                                     !.stop_cmd[ep] = 0]
            /\ UNCHANGED << pc, ctl_lock >>
       ELSE \* no Sender for the endpoint, or send(()).unwrap() fails
            /\ mmio_panic
            /\ UNCHANGED << wakeup, hist >>
    /\ UNCHANGED << ervars, cur, drv, irqs, command_ring, used_slots, endpoints,
                    ring_mem, ep_ctx >>
    /\ UNCHANGED regvars

\* write_io(ERDP): lock the controller, then the event ring
write_io_erdp ==
    /\ pc[Mmio] = "idle"
    /\ drv.deq # event_ring.dequeue_pointer
    /\ ctl_lock' = Mmio
    /\ cur' = [cur EXCEPT ![Mmio] = [op |-> "erdp", value |-> drv.deq, ret |-> "release"]]
    /\ pc' = [pc EXCEPT ![Mmio] = "lock"]
    /\ UNCHANGED << ervars, drv, irqs, command_ring, used_slots, endpoints, wakeup,
                    ring_mem, ep_ctx, drvq, hist >>
    /\ UNCHANGED regvars

\* write_io returns: the guard of the controller mutex is dropped
write_io_return ==
    /\ pc[Mmio] = "release"
    /\ ctl_lock' = "none"
    /\ pc' = [pc EXCEPT ![Mmio] = "idle"]
    /\ UNCHANGED << ervars, cur, drv, irqs, command_ring, used_slots, endpoints,
                    wakeup, ring_mem, ep_ctx, drvq, hist >>
    /\ UNCHANGED regvars

----------------------------------------------------------------------------
(* SpecSys: the endpoint workers (transfer_in_worker, transfer_out_worker) *)

\* endpoint ids of IN endpoints are odd (enable_endpoint: is_out_endpoint)
is_out_endpoint(ep) == ep % 2 = 0

\* next_transfer_trb up to its closing store: the loads of the context
\* field and of the TRB, and the store that follows a Link TRB
worker_fetch(w) ==
    /\ pc[w] = "fetch"
    /\ LET ep == endpoint_id[w]
           r == next_transfer_trb(ep_ctx[ep], ring_mem)
       IN /\ ep_ctx' = [ep_ctx EXCEPT ![ep] = r.ctx]
          /\ hist' = IF r.ctx # ep_ctx[ep] THEN stored(hist, w, "deq") ELSE hist
          /\ CASE r.res = "None" ->
                    /\ pc' = [pc EXCEPT ![w] = "recv"]
                    /\ UNCHANGED cur
               [] r.res = "Panic" ->
                    /\ pc' = [pc EXCEPT ![w] = "dead"]
                    /\ UNCHANGED cur
               [] OTHER ->
                    /\ cur' = [cur EXCEPT ![w] = [op |-> "trb", address |-> r.address,
                                                  trb |-> r.trb, final |-> r.final]]
                    /\ pc' = [pc EXCEPT ![w] = "commit"]
    /\ UNCHANGED << ervars, drv, irqs, ctl_lock, command_ring, used_slots, endpoints,
                    wakeup, ring_mem, drvq >>
    /\ UNCHANGED regvars

\* the closing set_dequeue_pointer_and_cycle_state of next_transfer_trb
worker_commit(w) ==
    /\ pc[w] = "commit"
    /\ ep_ctx' = [ep_ctx EXCEPT ![endpoint_id[w]].deq = cur[w].final.deq]
    /\ hist' = stored([hist EXCEPT !.fetched[endpoint_id[w]] = @ + 1], w, "deq")
    /\ pc' = [pc EXCEPT ![w] = "xfer"]
    /\ UNCHANGED << ervars, cur, drv, irqs, ctl_lock, command_ring, used_slots,
                    endpoints, wakeup, ring_mem, drvq >>
    /\ UNCHANGED regvars

\* the transfer on the real device completes (submit, wait_next_complete);
\* the IN worker copies the data to the guest; with IOC set the worker
\* builds the Transfer Event and calls enqueue
worker_transfer(w) ==
    /\ pc[w] = "xfer"
    /\ LET ep == endpoint_id[w]
           trb == cur[w]
           h == IF is_out_endpoint(ep) THEN hist ELSE stored(hist, w, "data")
       IN IF trb.trb.type # NORMAL
          THEN \* assert!(matches!(trb.variant, TransferTrbVariant::Normal(_)))
               /\ pc' = [pc EXCEPT ![w] = "dead"]
               /\ UNCHANGED << cur, hist, issued >>
          ELSE IF ~trb.trb.flag
          THEN /\ pc' = [pc EXCEPT ![w] = "fetch"]
               /\ hist' = h
               /\ UNCHANGED << cur, issued >>
          ELSE /\ cur' = [cur EXCEPT ![w] =
                             [op |-> "enqueue", id |-> issued + 1,
                              trb |-> new_transfer_event_trb(trb.address, 0,
                                          CompletionCode.Success, FALSE, ep, 1),
                              ret |-> "fetch"]]
               /\ hist' = enqueue_called(h, w)
               /\ issued' = issued + 1
               /\ pc' = [pc EXCEPT ![w] = "lock"]
    /\ UNCHANGED << event_ring, mem_er, lock_er, poisoned_er, wr_idx, live, done,
                    drv, irqs, ctl_lock, command_ring, used_slots, endpoints,
                    wakeup, ring_mem, ep_ctx, drvq >>
    /\ UNCHANGED regvars

\* wakeup.recv(): returns at once when a message is buffered, else parks
worker_recv(w) ==
    /\ pc[w] = "recv"
    /\ IF wakeup[endpoint_id[w]] > 0
       THEN /\ wakeup' = [wakeup EXCEPT ![endpoint_id[w]] = @ - 1]
            /\ pc' = [pc EXCEPT ![w] = "fetch"]
       ELSE /\ pc' = [pc EXCEPT ![w] = "blocked"]
            /\ UNCHANGED wakeup
    /\ UNCHANGED << ervars, cur, drv, irqs, ctl_lock, command_ring, used_slots,
                    endpoints, ring_mem, ep_ctx, drvq, hist >>
    /\ UNCHANGED regvars

\* a parked worker is woken by a message
worker_wake(w) ==
    /\ pc[w] = "blocked"
    /\ wakeup[endpoint_id[w]] > 0
    /\ wakeup' = [wakeup EXCEPT ![endpoint_id[w]] = @ - 1]
    /\ pc' = [pc EXCEPT ![w] = "fetch"]
    /\ UNCHANGED << ervars, cur, drv, irqs, ctl_lock, command_ring, used_slots,
                    endpoints, ring_mem, ep_ctx, drvq, hist >>
    /\ UNCHANGED regvars

----------------------------------------------------------------------------
(* SpecSys: the guest driver filling the rings *)

\* The driver fills the rings from the vCPU that also writes the doorbells,
\* so it posts while no MMIO access of its own is in progress.

\* the driver's view of ring_mem and drvq, for DrvPut
DrvState == [mem |-> ring_mem, q |-> drvq]

\* the commands the driver may post next: Enable Slot first, Address
\* Device for the enabled slot, then Configure Endpoint (also for an
\* endpoint it has configured before) and No Op
CommandAllowed(type, ptr) ==
    \/ /\ type = ENABLE_SLOT_COMMAND /\ ptr = 0
       /\ drvq.posted[0] = 0
    \/ /\ type = ADDRESS_DEVICE_COMMAND /\ ptr = InputContextPtr(1)
       /\ 1 \in used_slots /\ ep_ctx[1].state = DISABLED
       /\ drvq.posted[0] = Consumed(0)
    \/ /\ type = CONFIGURE_ENDPOINT_COMMAND
       /\ ptr \in { InputContextPtr(ep) : ep \in EndpointIds \ {1} }
       /\ ep_ctx[1].state = RUNNING
    \/ /\ type = NO_OP_COMMAND /\ ptr = 0
       /\ ep_ctx[1].state = RUNNING

CommandTypes == {ENABLE_SLOT_COMMAND, ADDRESS_DEVICE_COMMAND,
                 CONFIGURE_ENDPOINT_COMMAND, NO_OP_COMMAND}

DrvPostCommand(type, ptr) ==
    /\ pc[Mmio] = "idle"
    /\ drvq.posted[0] < MaxCmds
    /\ HasRoom(0, 1)
    /\ CommandAllowed(type, ptr)
    /\ LET st == DrvPut(DrvState, 0, type, ptr, FALSE)
       IN /\ ring_mem' = st.mem
          /\ drvq' = st.q
    /\ UNCHANGED << ervars, pc, cur, drv, irqs, ctl_lock, command_ring, used_slots,
                    endpoints, wakeup, ep_ctx, hist >>
    /\ UNCHANGED regvars

\* a control request: Setup Stage, Data Stage when device-to-host, Status
\* Stage
DrvPostControl(d2h) ==
    /\ pc[Mmio] = "idle"
    /\ ep_ctx[1].state = RUNNING
    /\ drvq.requests < MaxCtl
    /\ HasRoom(1, IF d2h THEN 3 ELSE 2)
    /\ LET s1 == DrvPut(DrvState, 1, SETUP_STAGE, 0, d2h)
           s2 == IF d2h THEN DrvPut(s1, 1, DATA_STAGE, 0, FALSE) ELSE s1
           s3 == DrvPut(s2, 1, STATUS_STAGE, 0, FALSE)
       IN /\ ring_mem' = s3.mem
          /\ drvq' = [s3.q EXCEPT !.requests = @ + 1]
          /\ hist' = [hist EXCEPT !.status_at = Append(@, s2.q.enq[1])]
    /\ UNCHANGED << ervars, pc, cur, drv, irqs, ctl_lock, command_ring, used_slots,
                    endpoints, wakeup, ep_ctx >>
    /\ UNCHANGED regvars

\* a Normal TRB on the transfer ring of a configured endpoint, while the
\* driver has posted fewer than max of them
DrvPostNormalUpTo(max, ep, ioc) ==
    /\ pc[Mmio] = "idle"
    /\ ep \in EndpointIds \ {1}
    /\ ep_ctx[ep].state = RUNNING
    /\ drvq.posted[2] + drvq.posted[3] < max
    /\ HasRoom(ep, 1)
    /\ LET st == DrvPut(DrvState, ep, NORMAL, 0, ioc)
       IN /\ ring_mem' = st.mem
          /\ drvq' = st.q
    /\ hist' = [hist EXCEPT !.normal[ep] =
                    Append(@, [address |-> drvq.enq[ep], ioc |-> ioc])]
    /\ UNCHANGED << ervars, pc, cur, drv, irqs, ctl_lock, command_ring, used_slots,
                    endpoints, wakeup, ep_ctx >>
    /\ UNCHANGED regvars

DrvPostNormal(ep, ioc) == DrvPostNormalUpTo(MaxXfer, ep, ioc)

\* the driver handles an event of the event ring
DrvConsumeSys ==
    /\ drv.consumed < MaxConsume
    /\ DrvConsume

InitSys ==
    /\ event_ring = EventRingConfigured(ErstSizeSys)
    /\ mem_er = [a \in SlotAddrs |-> zeroed_trb_buffer]
    /\ lock_er = "none"
    /\ poisoned_er = FALSE
    /\ pc = [t \in Threads |-> IF t = Mmio THEN "idle" ELSE "off"]
    /\ cur = [t \in Threads |-> [op |-> "none"]]
    /\ wr_idx = [t \in Threads |-> 0]
    /\ drv = [deq |-> erst_base(0), cycle |-> TRUE, consumed |-> 0,
              seen |-> zeroed_trb_buffer]
    /\ issued = 0
    /\ live = {}
    /\ done = 0
    /\ SysVarsInit

NextSys ==
    \/ doorbell_controller
    \/ drain
    \/ handle_command
    \/ doorbell_control_endpoint
    \/ check_control_endpoint
    \/ \E ok \in BOOLEAN : control_transfer(ok)
    \/ \E ep \in EndpointIds : doorbell_device(ep)
    \/ write_io_erdp
    \/ write_io_return
    \/ \E t \in Threads : event_ring_lock(t)
    \/ \E t \in Threads : enqueue_write(t)
    \/ \E t \in Threads : enqueue_advance(t)
    \/ \E t \in Threads : erdp_update(t)
    \/ \E t \in Threads : event_ring_unlock(t)
    \/ \E t \in Threads : interrupt(t)
    \/ \E w \in Workers : worker_fetch(w)
    \/ \E w \in Workers : worker_commit(w)
    \/ \E w \in Workers : worker_transfer(w)
    \/ \E w \in Workers : worker_recv(w)
    \/ \E w \in Workers : worker_wake(w)
    \/ \E type \in CommandTypes, ptr \in {0} \cup DOMAIN InputCtxMem :
          DrvPostCommand(type, ptr)
    \/ \E d2h \in BOOLEAN : DrvPostControl(d2h)
    \/ \E ep \in EndpointIds, ioc \in BOOLEAN : DrvPostNormal(ep, ioc)
    \/ DrvConsumeSys

SpecSys == InitSys /\ [][NextSys]_vars

----------------------------------------------------------------------------
(* What the event ring holds, in the order of the enqueues (SpecSys never
   wraps its event ring) *)

RECURSIVE EventsFrom(_)
EventsFrom(i) == IF i > done THEN << >>
                 ELSE << mem_er[RingSlots[i]] >> \o EventsFrom(i + 1)
Events == EventsFrom(1)

is_command_completion(bytes) == trb_type_of(bytes) = COMMAND_COMPLETION_EVENT
is_control_transfer_event(bytes) == trb_type_of(bytes) = TRANSFER_EVENT /\ bytes[14] = 1

\* completion code (byte 11) and slot id (byte 15) of a Command Completion
\* event
completion_code_of(bytes) == bytes[11]
slot_id_of(bytes) == bytes[15]

\* fields of a Transfer Event: residual (bytes 8..10), endpoint id (byte 14)
residual_of(bytes) == le_value(bytes, 8, 10)
endpoint_id_of(bytes) == bytes[14]

\* s is an initial part of t
IsPrefix(s, t) == Len(s) <= Len(t) /\ \A i \in 1..Len(s) : s[i] = t[i]

RECURSIVE Pointers(_)
Pointers(evs) == IF evs = << >> THEN << >>
                 ELSE << pointer_of(Head(evs)) >> \o Pointers(Tail(evs))

(* C1 *)

\* C1: draining the command ring, handle_command enqueues for every command
\* TRB that next_command_trb yielded exactly one Command Completion event
\* carrying that TRB's address, in ring order, and raises one interrupt for
\* it after the enqueue: whenever the MMIO thread is between commands, the
\* completion events on the event ring are the yielded commands, and it has
\* raised one interrupt per event it enqueued.
C1_OneCompletionPerCommand ==
    pc[Mmio] \in {"drain", "idle", "dead"} =>
        /\ Pointers(SelectSeq(Events, is_command_completion)) = hist.yielded
        /\ irqs[Mmio] = Len(SelectSeq(Events, is_command_completion))
                        + Len(SelectSeq(Events, is_control_transfer_event))

(* C12 *)

\* C12: every No Op command that next_command_trb yielded is completed with
\* a Command Completion event carrying its address and the code Success,
\* one interrupt is raised for it, and the MMIO thread goes on to the next
\* TRB: whenever the MMIO thread is between commands, the i-th completion
\* event belongs to the i-th yielded command if that was a No Op.
C12_NoOpCompletesWithSuccess ==
    LET cc == SelectSeq(Events, is_command_completion)
    IN pc[Mmio] \in {"drain", "idle", "dead"} =>
          \A i \in 1..Len(hist.yielded) :
             hist.yielded_types[i] = NO_OP_COMMAND =>
                /\ Len(cc) >= i
                /\ pointer_of(cc[i]) = hist.yielded[i]
                /\ completion_code_of(cc[i]) = CompletionCode.Success
                /\ irqs[Mmio] >= i

(* C14 *)

C15_DoorbellDrainsControlRing ==
    pc[Mmio] = "idle" =>
        Len(SelectSeq(Events, is_control_transfer_event)) >= hist.rung_at[1]

(* C3 *)

\* C3: every call of EventRing::enqueue made after a command handler's
\* stores to a context or after a store of transfer data to a guest buffer
\* (device-to-host control transfer, IN worker) is preceded by a release
\* fence issued after the last of those stores.
C3_FenceBeforeEnqueue ==
    \A x \in hist.unfenced_enq : x[2] \notin {"ctx", "data"}

(* C5 *)

\* C5: no write of the controller thread to an endpoint context falls into
\* the window between a worker's load of that context's dequeue-pointer
\* field (+8) and its store of the advanced value.
C5_SingleContextWriter == hist.overlap = {}

(* C8 *)

\* steps of a thread inside the event-ring critical section
InCritical(t) == pc[t] \in {"write", "bytes", "advance", "erdp", "unlock"}

LockProgress ==
    \E t \in Threads : \/ event_ring_lock(t) \/ enqueue_write(t)
                       \/ enqueue_advance(t) \/ erdp_update(t)
                       \/ event_ring_unlock(t)

\* C8: the MMIO thread and the workers cannot deadlock: no worker holds the
\* controller mutex; the MMIO thread takes (or waits for) the event-ring
\* mutex only while it holds the controller mutex; whoever holds the
\* event-ring mutex is inside the critical section and not blocked on a
\* wakeup channel or a real-device transfer; and while a thread waits for
\* the event-ring mutex some thread can take a step towards releasing it.
C8_NoDeadlock ==
    /\ ctl_lock \in {"none", Mmio}
    /\ (lock_er = Mmio \/ pc[Mmio] = "lock") => ctl_lock = Mmio
    /\ \A t \in Threads : lock_er = t => InCritical(t)
    /\ \A t \in Threads : InCritical(t) => lock_er = t
    /\ (\E t \in Threads : pc[t] = "lock") => ENABLED LockProgress

\* the MMIO thread holds both mutexes while a worker waits for the event
\* ring, with the other worker parked on its wakeup channel
C8_Witness ==
    /\ ctl_lock = Mmio /\ lock_er = Mmio
    /\ \E w \in Workers : pc[w] = "lock"
    /\ \E w \in Workers : pc[w] = "blocked"

(* SpecLive: bring-up of the two endpoints and bulk transfers, under fair
   scheduling of the threads *)

\* the driver brings the device up once: Enable Slot, Address Device, one
\* Configure Endpoint per endpoint, each posted when the one before it has
\* been handled
DrvBringUp(type, ptr) ==
    /\ type # NO_OP_COMMAND
    /\ drvq.posted[0] = Consumed(0)
    /\ \A ep \in EndpointIds \ {1} :
          ptr = InputContextPtr(ep) => ep_ctx[ep].state = DISABLED
    /\ DrvPostCommand(type, ptr)

NextLive ==
    \/ doorbell_controller
    \/ drain
    \/ handle_command
    \/ \E ep \in EndpointIds : doorbell_device(ep)
    \/ \E t \in Threads : event_ring_lock(t)
    \/ \E t \in Threads : enqueue_write(t)
    \/ \E t \in Threads : enqueue_advance(t)
    \/ \E t \in Threads : event_ring_unlock(t)
    \/ \E t \in Threads : interrupt(t)
    \/ \E w \in Workers : worker_fetch(w)
    \/ \E w \in Workers : worker_commit(w)
    \/ \E w \in Workers : worker_transfer(w)
    \/ \E w \in Workers : worker_recv(w)
    \/ \E w \in Workers : worker_wake(w)
    \/ \E type \in CommandTypes, ptr \in {0} \cup DOMAIN InputCtxMem :
          DrvBringUp(type, ptr)
    \/ \E ep \in EndpointIds, ioc \in BOOLEAN : DrvPostNormal(ep, ioc)

\* The threads are OS threads: a thread that can take a step inside the
\* event-ring critical section or in a worker's loop eventually takes it,
\* and the real device completes every transfer submitted to it
\* (worker_transfer).  Nothing is assumed about when the driver writes a
\* register.
ThreadStep(t) ==
    \/ event_ring_lock(t) \/ enqueue_write(t) \/ enqueue_advance(t)
    \/ event_ring_unlock(t) \/ interrupt(t)
    \/ /\ t \in Workers
       /\ \/ worker_fetch(t) \/ worker_commit(t) \/ worker_transfer(t)
          \/ worker_recv(t) \/ worker_wake(t)

Fairness == \A t \in Threads : WF_vars(ThreadStep(t))

SpecLive == InitSys /\ [][NextLive]_vars /\ Fairness

(* C6 *)

\* C6: no wakeup is lost: once the doorbell of an enabled endpoint has been
\* rung after the driver placed its n-th Normal TRB on the endpoint's
\* transfer ring, the endpoint's worker eventually fetches that TRB,
\* wherever the doorbell falls in the worker's check-ring-then-block
\* sequence.
C6_NoLostWakeup ==
    \A ep \in EndpointIds \ {1} : \A n \in 1..MaxXfer :
        (hist.rung_at[ep] >= n) ~> (hist.fetched[ep] >= n)

\* the doorbell was rung between the worker's look at the empty ring and
\* its recv(): the worker has not parked yet, the message is buffered, the
\* TRB is still to be fetched
C6_Witness ==
    \E w \in Workers :
        /\ pc[w] = "recv"
        /\ wakeup[endpoint_id[w]] > 0
        /\ hist.rung_at[endpoint_id[w]] > hist.fetched[endpoint_id[w]]

(* SpecXfer: bring-up of the two endpoints, then bulk transfers *)

NextXfer ==
    \/ doorbell_controller
    \/ drain
    \/ handle_command
    \/ \E ep \in EndpointIds : doorbell_device(ep)
    \/ \E t \in Threads : event_ring_lock(t)
    \/ \E t \in Threads : enqueue_write(t)
    \/ \E t \in Threads : enqueue_advance(t)
    \/ \E t \in Threads : event_ring_unlock(t)
    \/ \E t \in Threads : interrupt(t)
    \/ \E w \in Workers : worker_fetch(w)
    \/ \E w \in Workers : worker_commit(w)
    \/ \E w \in Workers : worker_transfer(w)
    \/ \E w \in Workers : worker_recv(w)
    \/ \E w \in Workers : worker_wake(w)
    \/ \E type \in CommandTypes, ptr \in {0} \cup DOMAIN InputCtxMem :
          DrvBringUp(type, ptr)
    \/ \E ep \in EndpointIds, ioc \in BOOLEAN : DrvPostNormalUpTo(MaxBulk, ep, ioc)

SpecXfer == InitSys /\ [][NextXfer]_vars

\* the Transfer Events of endpoint ep on the event ring
TransferEventsOf(ep) ==
    SelectSeq(Events, LAMBDA b : trb_type_of(b) = TRANSFER_EVENT
                                 /\ endpoint_id_of(b) = ep)

\* addresses of the TRBs of a sequence of posted Normal TRBs that have the
\* Interrupt-On-Completion flag
RECURSIVE IocAddresses(_)
IocAddresses(posted) ==
    IF posted = << >> THEN << >>
    ELSE (IF Head(posted).ioc THEN << Head(posted).address >> ELSE << >>)
         \o IocAddresses(Tail(posted))

(* C16 *)

\* C16: the Transfer Events of an endpoint are, in ring order, those of the
\* Normal TRBs with the IOC flag its worker has handled: whenever the worker
\* is between TRBs, the events' pointers are the addresses of the IOC TRBs
\* among the TRBs it fetched, in the order of the transfer ring, each with
\* residual 0, code Success, the worker's endpoint id and slot id, and the
\* worker has raised one interrupt per event; in between, the events are an
\* initial part of that sequence.
C16_OneEventPerIocTrb ==
    \A w \in Workers :
       LET ep == endpoint_id[w]
           te == TransferEventsOf(ep)
           posted == hist.normal[ep]
       IN /\ hist.fetched[ep] <= Len(posted)
          /\ IsPrefix(Pointers(te), IocAddresses(SubSeq(posted, 1, hist.fetched[ep])))
          /\ \A i \in 1..Len(te) :
                /\ residual_of(te[i]) = 0
                /\ completion_code_of(te[i]) = CompletionCode.Success
                /\ slot_id_of(te[i]) = 1
          /\ pc[w] \in {"fetch", "recv", "blocked"} =>
                /\ Pointers(te) = IocAddresses(SubSeq(posted, 1, hist.fetched[ep]))
                /\ irqs[w] = Len(te)

\* a worker has handled TRBs with and without the IOC flag and is waiting
\* for the next doorbell, with more than one event of its endpoint posted
C16_Witness ==
    \E w \in Workers :
       /\ pc[w] = "blocked"
       /\ hist.fetched[endpoint_id[w]] = MaxBulk
       /\ Len(TransferEventsOf(endpoint_id[w])) >= 2
       /\ \E i \in 1..Len(hist.normal[endpoint_id[w]]) :
             ~hist.normal[endpoint_id[w]][i].ioc

(* C9 *)

C9_Harmless ==
    /\ (/\ pc[Mmio] = "drain" /\ pc'[Mmio] # "drain"
        /\ ~command_trb_fresh(command_ring, ring_mem))
       => /\ pc'[Mmio] = "idle"
          /\ UNCHANGED << command_ring, ep_ctx, event_ring, mem_er, irqs >>
    /\ (/\ pc[Mmio] = "ctl_req" /\ pc'[Mmio] # "ctl_req"
        /\ ~transfer_trb_fresh(ep_ctx[1], ring_mem))
       => /\ pc'[Mmio] \in {"idle", "release"}
          /\ UNCHANGED << command_ring, ep_ctx, event_ring, mem_er, irqs >>
    /\ \A w \in Workers :
          (/\ pc[w] = "fetch" /\ pc'[w] # "fetch"
           /\ ~transfer_trb_fresh(ep_ctx[endpoint_id[w]], ring_mem))
          => /\ pc'[w] = "recv"
             /\ UNCHANGED << command_ring, ep_ctx, event_ring, mem_er, irqs >>

\* C9: a doorbell whose ring holds no fresh TRB is harmless, for the
\* controller doorbell, the control-endpoint doorbell and the doorbell of an
\* enabled endpoint: the thread that looks at the ring enqueues no event,
\* raises no interrupt, changes no ring state and does not fail.
C9_StaleDoorbellHarmless == [][C9_Harmless]_vars

(* C10 *)

\* C10: the Transfer Event enqueued for a control request whose transfer on
\* the real device failed (control_in or control_out returned an error)
\* carries a completion code other than Success.
C10_FailureNotReportedAsSuccess ==
    \A i \in 1..Len(Events) :
        (is_control_transfer_event(Events[i]) /\ pointer_of(Events[i]) \in hist.failed)
        => Events[i][11] # CompletionCode.Success

----------------------------------------------------------------------------
(* SpecStop: bring-up of the two endpoints, bulk transfers, and Stop
   Endpoint commands *)

\* the driver stops a running endpoint: a Stop Endpoint command for it
DrvPostStop(ep) ==
    /\ pc[Mmio] = "idle"
    /\ ep \in EndpointIds \ {1}
    /\ ep \in endpoints
    /\ ep_ctx[ep].state = RUNNING
    /\ drvq.posted[0] < MaxCmds
    /\ drvq.posted[0] = Consumed(0)
    /\ HasRoom(0, 1)
    /\ LET st == DrvPut(DrvState, 0, STOP_ENDPOINT_COMMAND, ep, FALSE)
       IN /\ ring_mem' = st.mem
          /\ drvq' = st.q
    /\ UNCHANGED << ervars, pc, cur, drv, irqs, ctl_lock, command_ring, used_slots,
                    endpoints, wakeup, ep_ctx, hist >>
    /\ UNCHANGED regvars

NextStop ==
    \/ doorbell_controller
    \/ drain
    \/ handle_command
    \/ \E ep \in EndpointIds : doorbell_device(ep)
    \/ \E t \in Threads : event_ring_lock(t)
    \/ \E t \in Threads : enqueue_write(t)
    \/ \E t \in Threads : enqueue_advance(t)
    \/ \E t \in Threads : event_ring_unlock(t)
    \/ \E t \in Threads : interrupt(t)
    \/ \E w \in Workers : worker_fetch(w)
    \/ \E w \in Workers : worker_commit(w)
    \/ \E w \in Workers : worker_transfer(w)
    \/ \E w \in Workers : worker_recv(w)
    \/ \E w \in Workers : worker_wake(w)
    \/ \E type \in CommandTypes, ptr \in {0} \cup DOMAIN InputCtxMem :
          DrvBringUp(type, ptr)
    \/ \E ep \in EndpointIds, ioc \in BOOLEAN : DrvPostNormalUpTo(MaxStopBulk, ep, ioc)
    \/ \E ep \in EndpointIds : DrvPostStop(ep)

SpecStop == InitSys /\ [][NextStop]_vars

(* C36 *)

\* the Command Completion event of the Stop Endpoint command for ep is on
\* the event ring, and the endpoint has not been started again since
StopCompleted(ep) ==
    /\ hist.stop_cmd[ep] # 0
    /\ \E a \in SlotAddrs :
          /\ is_command_completion(mem_er[a])
          /\ pointer_of(mem_er[a]) = hist.stop_cmd[ep]

\* C36: once the Command Completion event of Stop Endpoint for an endpoint
\* has been enqueued, the endpoint's worker fetches no further TRB from the
\* transfer ring and posts no further Transfer Event until the endpoint is
\* started again by a doorbell or a Configure Endpoint
C36_StoppedWorkerIdle ==
    [][\A w \in Workers :
          StopCompleted(endpoint_id[w]) =>
             /\ ~(pc[w] = "fetch" /\ pc'[w] = "commit")
             /\ ~(pc[w] = "write" /\ pc'[w] = "advance")]_vars

----------------------------------------------------------------------------
(* SpecSlots: Enable Slot commands on a controller with num_slots slots *)

\* the driver places an Enable Slot command on the command ring
DrvPostEnableSlot ==
    /\ pc[Mmio] = "idle"
    /\ drvq.posted[0] < MaxCmds
    /\ HasRoom(0, 1)
    /\ LET st == DrvPut(DrvState, 0, ENABLE_SLOT_COMMAND, 0, FALSE)
       IN /\ ring_mem' = st.mem
          /\ drvq' = st.q
    /\ UNCHANGED << ervars, pc, cur, drv, irqs, ctl_lock, command_ring, used_slots,
                    endpoints, wakeup, ep_ctx, hist >>
    /\ UNCHANGED regvars

\* DeviceSlotManager::new(num_slots, ..) asserts num_slots > 0; the
\* controller passes MAX_SLOTS
InitSlots ==
    /\ event_ring = EventRingConfigured(ErstSizeSys)
    /\ mem_er = [a \in SlotAddrs |-> zeroed_trb_buffer]
    /\ lock_er = "none"
    /\ poisoned_er = FALSE
    /\ pc = [t \in Threads |-> IF t = Mmio THEN "idle" ELSE "off"]
    /\ cur = [t \in Threads |-> [op |-> "none"]]
    /\ wr_idx = [t \in Threads |-> 0]
    /\ drv = [deq |-> erst_base(0), cycle |-> TRUE, consumed |-> 0,
              seen |-> zeroed_trb_buffer]
    /\ issued = 0
    /\ live = {}
    /\ done = 0
    /\ ctl_lock = "none"
    /\ command_ring = [running |-> FALSE, dequeue_pointer |-> CmdRingBase,
                       cycle_state |-> TRUE]
    /\ used_slots = {}
    /\ endpoints = {}
    /\ wakeup = [ep \in EndpointIds |-> 0]
    /\ ring_mem = [a \in AllRingAddrs |-> EmptyTrb]
    /\ ep_ctx = [ep \in EndpointIds |-> [state |-> DISABLED, deq |-> 0]]
    /\ drvq = [enq |-> [r \in RingIds |-> RingBase(r)],
               cycle |-> [r \in RingIds |-> TRUE],
               posted |-> [r \in RingIds |-> 0],
               rings |-> 0,
               requests |-> 0]
    /\ hist = HistInit
    /\ irqs = [t \in Threads |-> 0]
    /\ num_slots \in 1..MaxNumSlots
    /\ running = FALSE
    /\ dev_mem = DevMemUnused
    /\ xhci = BusUnused
    /\ bus = BusUnused
    /\ dynamic_bus = BusUnused
    /\ register_set = BusUnused

NextSlots ==
    \/ DrvPostEnableSlot
    \/ doorbell_controller
    \/ drain
    \/ handle_command
    \/ event_ring_lock(Mmio)
    \/ enqueue_write(Mmio)
    \/ enqueue_advance(Mmio)
    \/ event_ring_unlock(Mmio)
    \/ interrupt(Mmio)

SpecSlots == InitSlots /\ [][NextSlots]_vars

(* C11 *)

\* C11: of the Enable Slot commands handled so far the k-th, k <= num_slots,
\* completed with Success and slot id k, every later one completed with
\* NoSlotsAvailableError and slot id 0, and no slot id was handed out twice.
C11_EnableSlotIds ==
    LET cc == SelectSeq(Events, is_command_completion)
    IN /\ \A k \in 1..Len(cc) :
            IF k <= num_slots
            THEN /\ completion_code_of(cc[k]) = CompletionCode.Success
                 /\ slot_id_of(cc[k]) = k
            ELSE /\ completion_code_of(cc[k]) = CompletionCode.NoSlotsAvailableError
                 /\ slot_id_of(cc[k]) = 0
       /\ \A i, j \in 1..Len(cc) :
            (i # j /\ slot_id_of(cc[i]) # 0) => slot_id_of(cc[i]) # slot_id_of(cc[j])
       /\ used_slots \subseteq 1..num_slots

\* more than one slot was handed out and a further Enable Slot was refused
C11_Witness ==
    LET cc == SelectSeq(Events, is_command_completion)
    IN /\ num_slots >= 2
       /\ Len(cc) > num_slots
       /\ completion_code_of(cc[Len(cc)]) = CompletionCode.NoSlotsAvailableError

(* SpecRun: writes to USBCMD and reads of USBSTS *)

\* the low bits of USBCMD the driver may write: Run/Stop (bit 0) alone or
\* with Host Controller Reset (bit 1)
UsbcmdValues == 0..3

\* write_io(USBCMD, value): lock the controller, XhciController::run
run(usbcmd) ==
    /\ pc[Mmio] = "idle"
    /\ Len(hist.usbcmd) < MaxUsbcmd
    /\ ctl_lock' = Mmio
    /\ running' = (usbcmd % 2 = 1)
    /\ hist' = [hist EXCEPT !.usbcmd = Append(@, usbcmd)]
    /\ IF running'
       THEN /\ cur' = [cur EXCEPT ![Mmio] =
                          [op |-> "enqueue", id |-> issued + 1,
                           trb |-> new_port_status_change_event_trb(0),
                           ret |-> "release"]]
            /\ issued' = issued + 1
            /\ pc' = [pc EXCEPT ![Mmio] = "lock"]
       ELSE /\ pc' = [pc EXCEPT ![Mmio] = "release"]
            /\ UNCHANGED << cur, issued >>
    /\ UNCHANGED << event_ring, mem_er, lock_er, poisoned_er, wr_idx, live, done,
                    drv, irqs, command_ring, used_slots, endpoints, wakeup,
                    ring_mem, ep_ctx, drvq, num_slots, dev_mem, bus,
                    dynamic_bus, register_set, xhci >>

\* XhciController::status, the value of a USBSTS read, by its bits
status == [HCH |-> ~running, EINT |-> TRUE, PCD |-> TRUE]

NextRun ==
    \/ \E usbcmd \in UsbcmdValues : run(usbcmd)
    \/ event_ring_lock(Mmio)
    \/ enqueue_write(Mmio)
    \/ enqueue_advance(Mmio)
    \/ event_ring_unlock(Mmio)
    \/ interrupt(Mmio)
    \/ write_io_return

SpecRun == InitSys /\ [][NextRun]_vars

is_port_status_change(bytes) == trb_type_of(bytes) = PORT_STATUS_CHANGE_EVENT

\* the USBCMD writes so far that changed the Run/Stop bit from 0 to 1
RECURSIVE Starts(_, _)
Starts(w, was_running) ==
    IF w = << >> THEN 0
    ELSE (IF Head(w) % 2 = 1 /\ ~was_running THEN 1 ELSE 0)
         + Starts(Tail(w), Head(w) % 2 = 1)

(* C13 *)

\* C13: when no USBCMD write is in progress, the event ring holds one Port
\* Status Change event for port 0, and one interrupt was raised, for each
\* USBCMD write that changed the Run/Stop bit from 0 to 1 and for no other
\* write; and USBSTS.HCH is the negation of bit 0 of the last value written.
C13_EventOnStartOnly ==
    LET psc == SelectSeq(Events, is_port_status_change)
        w == hist.usbcmd
    IN pc[Mmio] = "idle" =>
          /\ Len(psc) = Starts(w, FALSE)
          /\ Len(Events) = Len(psc)
          /\ \A i \in 1..Len(psc) : psc[i][3] = 0
          /\ irqs[Mmio] = Starts(w, FALSE)
          /\ w # << >> => (status.HCH <=> (w[Len(w)] % 2 = 0))

(* C21, C22: SpecCmd, CommandRing::next_command_trb on a two-segment ring *)

\* The driver lays the command ring out in two segments: two command slots
\* and a Link TRB to the second segment (toggle_cycle clear), then one
\* command slot and a Link TRB back to the first (toggle_cycle set).
CmdLinkMid == LinkAddr(0) - 2 * TRB_SIZE
CmdSeg1Base == LinkAddr(0) - TRB_SIZE
CmdLinks == {CmdLinkMid, LinkAddr(0)}
CmdSlots == RingAddrs(0) \ CmdLinks
CmdLinkTarget(a) == IF a = CmdLinkMid THEN CmdSeg1Base ELSE CmdRingBase
CmdLinkToggle(a) == a # CmdLinkMid

\* the driver writes a command TRB at its enqueue position; it does not
\* write over a command the controller has not taken
CmdDrvPost(type) ==
    /\ drvq.enq[0] \in CmdSlots
    /\ drvq.posted[0] < MaxCmdPosts
    /\ drvq.posted[0] - Len(hist.yielded) < Cardinality(CmdSlots)
    /\ ring_mem' = [ring_mem EXCEPT ![drvq.enq[0]] = Trb(type, drvq.cycle[0], 0, FALSE)]
    /\ drvq' = [drvq EXCEPT !.enq[0] = @ + TRB_SIZE, !.posted[0] = @ + 1]
    /\ hist' = [hist EXCEPT !.cmd_posted =
                   Append(@, [address |-> drvq.enq[0], type |-> type])]
    /\ UNCHANGED << ervars, pc, cur, drv, irqs, ctl_lock, command_ring, used_slots,
                    endpoints, wakeup, ep_ctx >>
    /\ UNCHANGED regvars

\* the driver writes the Link TRB at the end of a segment and continues at
\* the Link's target
CmdDrvLink ==
    /\ drvq.enq[0] \in CmdLinks
    /\ drvq.posted[0] < MaxCmdPosts
    /\ LET at == drvq.enq[0]
       IN /\ ring_mem' = [ring_mem EXCEPT ![at] =
                  Trb(LINK, drvq.cycle[0], CmdLinkTarget(at), CmdLinkToggle(at))]
          /\ drvq' = [drvq EXCEPT !.enq[0] = CmdLinkTarget(at),
                                  !.cycle[0] = IF CmdLinkToggle(at) THEN ~@ ELSE @]
          /\ hist' = [hist EXCEPT !.links = Append(@, at)]
    /\ UNCHANGED << ervars, pc, cur, drv, irqs, ctl_lock, command_ring, used_slots,
                    endpoints, wakeup, ep_ctx >>
    /\ UNCHANGED regvars

\* one call of CommandRing::next_command_trb
CmdNext ==
    /\ LET r == next_command_trb(command_ring, ring_mem)
           first_trb == ring_mem[command_ring.dequeue_pointer]
           link == command_trb_fresh(command_ring, ring_mem) /\ first_trb.type = LINK
       IN /\ r.res # "Panic"
          /\ command_ring' = r.ring
          /\ hist' = [hist EXCEPT
                 !.cmd_last = [tick |-> ~@.tick, res |-> r.res, address |-> r.address],
                 !.chased = IF link THEN Append(@, command_ring.dequeue_pointer) ELSE @,
                 !.yielded = IF r.res = "Some" THEN Append(@, r.address) ELSE @,
                 !.yielded_types = IF r.res = "Some" THEN Append(@, r.trb.type) ELSE @]
    /\ UNCHANGED << ervars, pc, cur, drv, irqs, ctl_lock, used_slots, endpoints,
                    wakeup, ring_mem, ep_ctx, drvq >>
    /\ UNCHANGED regvars

InitCmd ==
    /\ event_ring = EventRingConfigured(ErstSizeSys)
    /\ mem_er = [a \in SlotAddrs |-> zeroed_trb_buffer]
    /\ lock_er = "none"
    /\ poisoned_er = FALSE
    /\ pc = [t \in Threads |-> "idle"]
    /\ cur = [t \in Threads |-> [op |-> "none"]]
    /\ wr_idx = [t \in Threads |-> 0]
    /\ drv = [deq |-> erst_base(0), cycle |-> TRUE, consumed |-> 0,
              seen |-> zeroed_trb_buffer]
    /\ issued = 0
    /\ live = {}
    /\ done = 0
    /\ SysVarsInit

NextCmd ==
    \/ \E type \in {ENABLE_SLOT_COMMAND, NO_OP_COMMAND} : CmdDrvPost(type)
    \/ CmdDrvLink
    \/ CmdNext

SpecCmd == InitCmd /\ [][NextCmd]_vars

\* a step that is a call of next_command_trb
CmdCallStep == hist'.cmd_last.tick # hist.cmd_last.tick

\* the TRB at the dequeue pointer carries the consumer cycle / is a Link
AtDequeue == ring_mem[command_ring.dequeue_pointer]
FreshAtDequeue == AtDequeue.cycle = command_ring.cycle_state

\* addresses and types of the commands the driver has posted, in order
PostedAddresses == [i \in 1..Len(hist.cmd_posted) |-> hist.cmd_posted[i].address]
PostedTypes == [i \in 1..Len(hist.cmd_posted) |-> hist.cmd_posted[i].type]

C21_Call ==
    CmdCallStep =>
        /\ hist'.cmd_last.res = "Some" =>
              /\ FreshAtDequeue
              /\ ring_mem[hist'.cmd_last.address].cycle = command_ring'.cycle_state
              /\ ring_mem[hist'.cmd_last.address].type # LINK
              /\ command_ring'.dequeue_pointer = hist'.cmd_last.address + TRB_SIZE
        /\ (hist'.cmd_last.res = "None" /\ ~(FreshAtDequeue /\ AtDequeue.type = LINK)) =>
              /\ ~FreshAtDequeue
              /\ command_ring' = command_ring
        /\ IsPrefix(hist'.yielded, PostedAddresses)
        /\ IsPrefix(hist'.yielded_types, PostedTypes)
        /\ hist'.cmd_last.res = "None" => hist'.yielded = PostedAddresses

\* C21: next_command_trb returns a TRB only if the TRB at the dequeue
\* pointer carries the consumer cycle; a call that returns None without
\* having followed a Link leaves dequeue pointer and consumer cycle as they
\* are (so the next call returns None again unless the driver has written
\* the slot); the TRBs returned are the commands the driver posted, each
\* once, in ring order, with its own guest address, and None is returned
\* only when all of them have been returned.
C21_FreshTrbsOnceInOrder == [][C21_Call]_vars

\* the ring has been walked for more than one pass and a call has found
\* nothing new
C21_Witness ==
    /\ Len(hist.yielded) > Cardinality(CmdSlots)
    /\ hist.yielded = PostedAddresses
    /\ hist.cmd_last.res = "None"

C22_Call ==
    (CmdCallStep /\ FreshAtDequeue /\ AtDequeue.type = LINK) =>
        LET target == AtDequeue.ptr
            cycle == IF AtDequeue.flag THEN ~command_ring.cycle_state
                     ELSE command_ring.cycle_state
        IN /\ command_ring'.cycle_state = cycle
           /\ IF ring_mem[target].cycle = cycle
              THEN /\ hist'.cmd_last.res = "Some"
                   /\ hist'.cmd_last.address = target
                   /\ command_ring'.dequeue_pointer = target + TRB_SIZE
              ELSE /\ hist'.cmd_last.res = "None"
                   /\ command_ring'.dequeue_pointer = target

C22_Links ==
    CmdCallStep =>
        /\ \A i \in 1..Len(hist'.yielded_types) : hist'.yielded_types[i] # LINK
        /\ IsPrefix(hist'.chased, hist.links)
        /\ hist'.cmd_last.res = "None" =>
              /\ hist'.chased = hist.links
              /\ hist'.yielded = PostedAddresses

\* C22: a fresh Link TRB is followed and never returned: the dequeue
\* pointer becomes its segment pointer and the consumer cycle toggles iff
\* toggle_cycle is set; a fresh TRB at the target is returned with the
\* target address and the pointer ends behind it, a stale one gives None
\* with the ring left at the target under the new cycle, and is returned by
\* a later call once the driver has written it.  The Link TRBs followed are
\* those the driver posted, each once, in order.
C22_LinkChasedOnce == [][C22_Call /\ C22_Links]_vars

\* both Link TRBs have been followed; the one back to the first segment
\* found a stale TRB at its target: None was returned and the ring is at
\* the target with the toggled cycle
C22_Witness ==
    /\ Len(hist.chased) >= 2
    /\ Len(hist.yielded) = Cardinality(CmdSlots)
    /\ hist.cmd_last.res = "None"
    /\ command_ring.dequeue_pointer = CmdRingBase
    /\ command_ring.cycle_state = FALSE

(* C23: SpecCrcr, CommandRing::control *)

\* crcr::DEQUEUE_POINTER_MASK is !0x3f: the low six bits are not address bits
CrcrLowBits == 64

\* values the driver writes to CRCR: a ring address with the flags RCS (1),
\* CS (2), CA (4) or a reserved bit (32) in the low bits
CrcrValues == { p + f : p \in {0, CmdRingBase, CmdRingBase + CrcrLowBits},
                        f \in {0, 1, 2, 4, 33} }

\* bit b (a power of two) of value is set
bit_set(value, b) == (value \div b) % 2 = 1

\* a control that stores the written value with its flag bits
control_unmasked(cr, value) ==
    IF cr.running
    THEN [res |-> IF bit_set(value, 4) \/ bit_set(value, 2) THEN "Panic" ELSE "Ok",
          ring |-> cr]
    ELSE [res |-> "Ok",
          ring |-> [cr EXCEPT !.dequeue_pointer = value,
                              !.cycle_state = bit_set(value, 1)]]

\* CommandRing::control; res is "Panic" for the todo!() arms (CA, CS while
\* running)
control(cr, value) ==
    IF cr.running
    THEN [res |-> IF bit_set(value, 4) \/ bit_set(value, 2) THEN "Panic" ELSE "Ok",
          ring |-> cr]
    ELSE [res |-> "Ok",
          ring |-> [cr EXCEPT !.dequeue_pointer = (value \div CrcrLowBits) * CrcrLowBits,
                              !.cycle_state = bit_set(value, 1)]]

\* write_io(CRCR, value): lock the controller, command_ring.control(value)
write_io_crcr(value) ==
    /\ pc[Mmio] = "idle"
    /\ Len(hist.crcr) < MaxCrcr
    /\ hist' = [hist EXCEPT !.crcr = Append(@, value)]
    /\ LET r == control(command_ring, value)
       IN /\ command_ring' = r.ring
          /\ IF r.res = "Panic" THEN mmio_panic ELSE UNCHANGED << pc, ctl_lock >>
    /\ UNCHANGED << ervars, cur, drv, irqs, used_slots, endpoints, wakeup, ring_mem,
                    ep_ctx, drvq >>
    /\ UNCHANGED regvars

\* CommandRing::new.  The code never assigns `running` after construction;
\* control is applied to rings with either value of the field.
InitCrcr ==
    /\ event_ring = EventRingConfigured(ErstSizeSys)
    /\ mem_er = [a \in SlotAddrs |-> zeroed_trb_buffer]
    /\ lock_er = "none"
    /\ poisoned_er = FALSE
    /\ pc = [t \in Threads |-> "idle"]
    /\ cur = [t \in Threads |-> [op |-> "none"]]
    /\ wr_idx = [t \in Threads |-> 0]
    /\ drv = [deq |-> erst_base(0), cycle |-> TRUE, consumed |-> 0,
              seen |-> zeroed_trb_buffer]
    /\ issued = 0
    /\ live = {}
    /\ done = 0
    /\ ctl_lock = "none"
    /\ \E r \in BOOLEAN :
          command_ring = [running |-> r, dequeue_pointer |-> 0, cycle_state |-> FALSE]
    /\ used_slots = {}
    /\ endpoints = {}
    /\ wakeup = [ep \in EndpointIds |-> 0]
    /\ ring_mem = [a \in AllRingAddrs |-> EmptyTrb]
    /\ ep_ctx = [ep \in EndpointIds |-> [state |-> DISABLED, deq |-> 0]]
    /\ drvq = [enq |-> [r \in RingIds |-> RingBase(r)],
               cycle |-> [r \in RingIds |-> TRUE],
               posted |-> [r \in RingIds |-> 0],
               rings |-> 0,
               requests |-> 0]
    /\ hist = HistInit
    /\ irqs = [t \in Threads |-> 0]
    /\ num_slots = MAX_SLOTS
    /\ running = FALSE
    /\ dev_mem = DevMemUnused
    /\ xhci = BusUnused
    /\ bus = BusUnused
    /\ dynamic_bus = BusUnused
    /\ register_set = BusUnused

NextCrcr == \E value \in CrcrValues : write_io_crcr(value)

SpecCrcr == InitCrcr /\ [][NextCrcr]_vars

C23_Write ==
    \A value \in CrcrValues :
        hist'.crcr = Append(hist.crcr, value) =>
            IF command_ring.running
            THEN /\ command_ring'.dequeue_pointer = command_ring.dequeue_pointer
                 /\ command_ring'.cycle_state = command_ring.cycle_state
            ELSE /\ command_ring'.dequeue_pointer = value - (value % 64)
                 /\ command_ring'.cycle_state = (value % 2 = 1)

ReqLinkMid == LinkAddr(1) - 2 * TRB_SIZE
ReqLinks == {ReqLinkMid, LinkAddr(1)}
ReqSlots == RingAddrs(1) \ ReqLinks
ReqLinkTarget(a) == IF a = ReqLinkMid THEN LinkAddr(1) - TRB_SIZE ELSE RingBase(1)
ReqLinkToggle(a) == a # ReqLinkMid

\* bytes 0..7 of the Setup Stage TRBs the driver posts, and the data
\* pointers of its Data Stage TRBs
SetupPackets == { << 17, 34, 68, 51, 102, 85, 136, 119 >>,
                  << 128, 6, 0, 1, 0, 0, 18, 0 >> }
DataPointers == { 4096, 8192 }

\* SetupStageTrbData::parse
SetupStageTrbData_parse(trb_bytes) ==
    [request_type |-> trb_bytes[1],
     request |-> trb_bytes[2],
     value |-> trb_bytes[3] + 256 * trb_bytes[4],
     index |-> trb_bytes[5] + 256 * trb_bytes[6],
     length |-> trb_bytes[7] + 256 * trb_bytes[8]]

\* a request whose address is that of its Setup Stage TRB
usb_request_setup_address(ctx, mem) ==
    LET r == next_request(ctx, mem)
        r1 == next_transfer_trb(ctx, mem)
        r2 == next_transfer_trb(r1.final, mem)
    IN [address |-> r1.address,
        setup |-> SetupStageTrbData_parse(r1.trb.ptr),
        data |-> IF r.data THEN << r2.trb.ptr >> ELSE << >>]

\* the UsbRequest next_request builds when it returns Some(Ok(..)); data is
\* the Option as a sequence of at most one data pointer
usb_request(ctx, mem) ==
    LET r == next_request(ctx, mem)
        r1 == next_transfer_trb(ctx, mem)
        r2 == next_transfer_trb(r1.final, mem)
    IN [address |-> r.address,
        setup |-> SetupStageTrbData_parse(r1.trb.ptr),
        data |-> IF r.data THEN << r2.trb.ptr >> ELSE << >>]

\* the driver writes one TRB of the control ring with its producer cycle;
\* when its position is that of a Link TRB it first hands over the Link TRB
\* and continues at the Link's target
ReqPut(st, type, ptr, flag) ==
    LET link == st.enq \in ReqLinks
        mem1 == IF link
                THEN [st.mem EXCEPT ![st.enq] = Trb(LINK, st.cycle, ReqLinkTarget(st.enq),
                                                    ReqLinkToggle(st.enq))]
                ELSE st.mem
        at == IF link THEN ReqLinkTarget(st.enq) ELSE st.enq
        cyc == IF link /\ ReqLinkToggle(st.enq) THEN ~st.cycle ELSE st.cycle
    IN [mem |-> [mem1 EXCEPT ![at] = Trb(type, cyc, ptr, flag)],
        enq |-> at + TRB_SIZE,
        cycle |-> cyc,
        at |-> at,
        at_cycle |-> cyc]

\* the driver posts one control request: Setup Stage, Data Stage if it has
\* data, Status Stage
ReqDrvPost(setup, data) ==
    /\ Len(hist.req_posted) < MaxReqs
    /\ drvq.posted[1] - hist.req_taken + 2 + Len(data) <= Cardinality(ReqSlots)
    /\ LET s0 == [mem |-> ring_mem, enq |-> drvq.enq[1], cycle |-> drvq.cycle[1]]
           s1 == ReqPut(s0, SETUP_STAGE, setup, setup[1] >= 128)
           s2 == IF data = << >> THEN s1 ELSE ReqPut(s1, DATA_STAGE, data[1], FALSE)
           s3 == ReqPut(s2, STATUS_STAGE, 0, FALSE)
       IN /\ ring_mem' = s3.mem
          /\ drvq' = [drvq EXCEPT !.enq[1] = s3.enq, !.cycle[1] = s3.cycle,
                                  !.posted[1] = @ + 2 + Len(data)]
          /\ hist' = [hist EXCEPT !.req_posted =
                         Append(@, [setup |-> setup, data |-> data,
                                    status_address |-> s3.at,
                                    status_cycle |-> s3.at_cycle])]
    /\ UNCHANGED << ervars, pc, cur, drv, irqs, ctl_lock, command_ring, used_slots,
                    endpoints, wakeup, ep_ctx >>
    /\ UNCHANGED regvars

\* one call of TransferRing::next_request for the control endpoint
ReqNext ==
    /\ LET r == next_request(ep_ctx[1], ring_mem)
       IN /\ ep_ctx' = [ep_ctx EXCEPT ![1] = r.ctx]
          /\ hist' = [hist EXCEPT
                 !.req_taken = @ + r.n,
                 !.req_last = IF r.res = "Ok"
                              THEN [tick |-> ~@.tick, res |-> "Ok",
                                    request |-> usb_request(ep_ctx[1], ring_mem)]
                              ELSE [tick |-> ~@.tick, res |-> r.res]]
    /\ UNCHANGED << ervars, pc, cur, drv, irqs, ctl_lock, command_ring, used_slots,
                    endpoints, wakeup, ring_mem, drvq >>
    /\ UNCHANGED regvars

\* the control endpoint is running, its context holds the start of the
\* ring with cycle 1
InitReq ==
    /\ event_ring = EventRingConfigured(ErstSizeSys)
    /\ mem_er = [a \in SlotAddrs |-> zeroed_trb_buffer]
    /\ lock_er = "none"
    /\ poisoned_er = FALSE
    /\ pc = [t \in Threads |-> "idle"]
    /\ cur = [t \in Threads |-> [op |-> "none"]]
    /\ wr_idx = [t \in Threads |-> 0]
    /\ drv = [deq |-> erst_base(0), cycle |-> TRUE, consumed |-> 0,
              seen |-> zeroed_trb_buffer]
    /\ issued = 0
    /\ live = {}
    /\ done = 0
    /\ ctl_lock = "none"
    /\ command_ring = [running |-> FALSE, dequeue_pointer |-> CmdRingBase,
                       cycle_state |-> TRUE]
    /\ used_slots = {1}
    /\ endpoints = {}
    /\ wakeup = [ep \in EndpointIds |-> 0]
    /\ ring_mem = [a \in AllRingAddrs |-> EmptyTrb]
    /\ ep_ctx = [ep \in EndpointIds |->
                    IF ep = 1
                    THEN set_dequeue_pointer_and_cycle_state(
                             [state |-> RUNNING, deq |-> 0], RingBase(1), TRUE)
                    ELSE [state |-> DISABLED, deq |-> 0]]
    /\ drvq = [enq |-> [r \in RingIds |-> RingBase(r)],
               cycle |-> [r \in RingIds |-> TRUE],
               posted |-> [r \in RingIds |-> 0],
               rings |-> 0,
               requests |-> 0]
    /\ hist = HistInit
    /\ irqs = [t \in Threads |-> 0]
    /\ num_slots = MAX_SLOTS
    /\ running = FALSE
    /\ dev_mem = DevMemUnused
    /\ xhci = BusUnused
    /\ bus = BusUnused
    /\ dynamic_bus = BusUnused
    /\ register_set = BusUnused

NextReq ==
    \/ \E setup \in SetupPackets :
          \E data \in {<< >>} \cup { << p >> : p \in DataPointers } :
             ReqDrvPost(setup, data)
    \/ ReqNext

SpecReq == InitReq /\ [][NextReq]_vars

\* a step that is a call of next_request
ReqCallStep == hist'.req_last.tick # hist.req_last.tick

C24_Call ==
    (ReqCallStep /\ drvq.posted[1] > hist.req_taken) =>
        LET q == hist.req_posted[Len(hist.req_posted)]
            before == get_dequeue_pointer_and_cycle_state(ep_ctx[1])
            after == get_dequeue_pointer_and_cycle_state(ep_ctx'[1])
            toggled == \E a \in ReqLinks :
                          /\ ReqLinkToggle(a)
                          /\ IF before.dequeue_pointer <= q.status_address
                             THEN before.dequeue_pointer <= a /\ a < q.status_address
                             ELSE before.dequeue_pointer <= a \/ a < q.status_address
        IN /\ hist'.req_last.res = "Ok"
           /\ hist'.req_last.request.setup.request_type = q.setup[1]
           /\ hist'.req_last.request.setup.request = q.setup[2]
           /\ hist'.req_last.request.setup.value = q.setup[3] + q.setup[4] * 256
           /\ hist'.req_last.request.setup.index = q.setup[5] + q.setup[6] * 256
           /\ hist'.req_last.request.setup.length = q.setup[7] + q.setup[8] * 256
           /\ hist'.req_last.request.data = q.data
           /\ hist'.req_last.request.address = q.status_address
           /\ ring_mem[hist'.req_last.request.address].type = STATUS_STAGE
           /\ after.dequeue_pointer = q.status_address + TRB_SIZE
           /\ after.cycle_state = (IF toggled THEN ~before.cycle_state
                                   ELSE before.cycle_state)

\* C24: for a fresh sequence Setup Stage, optional Data Stage, Status Stage
\* at the dequeue pointer of the transfer ring, with Link TRBs in between
\* where the ring changes segment, next_request returns a UsbRequest with
\* the fields of the Setup Stage TRB, data = Some(data pointer) iff there was
\* a Data Stage TRB, and address = the guest address of the Status Stage
\* TRB; afterwards the dequeue pointer stored in the endpoint context is the
\* address just behind the Status Stage TRB, and the stored cycle is the one
\* from before the call unless a Link TRB with toggle_cycle was followed.
C24_NextRequest == [][C24_Call]_vars

\* a second request, with a Data Stage, has been returned after the ring
\* wrapped through both Link TRBs
C24_Witness ==
    /\ Len(hist.req_posted) >= 2
    /\ hist.req_taken = drvq.posted[1]
    /\ hist.req_last.res = "Ok"
    /\ hist.req_last.request.data # << >>
    /\ get_dequeue_pointer_and_cycle_state(ep_ctx[1]).cycle_state = FALSE

(* C25, C26: SpecCtx, Address Device and Configure Endpoint on the bytes of *)
(* the device context                                                      *)

\* context indices the input contexts of SpecCtx flag, besides A0
CtxIndices == {1, 2, 31}
AddSets == { a \cup z : a \in SUBSET CtxIndices, z \in {{}, {0}} }
DropSets == { {}, {2}, {31}, {1, 2, 31} }

\* an input context in guest memory: the drop and add flags of its input
\* control context as sets of bit numbers, and its bytes from offset 32 on
InputContext(drop, add, p) ==
    [bytes |-> [i \in 0..(CONTEXT_SIZE + ContextEntries * CONTEXT_SIZE - 1) |->
                   IF i < CONTEXT_SIZE THEN 0 ELSE (i * p + 7) % 256],
     drop |-> drop, add |-> add]

\* DeviceSlotManager::get_device_context: the address held by the DCBAA
\* entry of the slot
get_device_context(mem, slot_id) == mem.dcbaa[slot_id]

\* an initialize that leaves the states of the input context in place
DeviceContext_initialize_no_overlay(mem, address, input) ==
    [mem EXCEPT !.ctx[address] =
        [j \in DeviceContextBytes |->
            IF j < 2 * CONTEXT_SIZE THEN input.bytes[CONTEXT_SIZE + j] ELSE @[j]]]

\* DeviceContext::initialize, past its assert: the input context with the
\* two states overlaid, bytes 32..96 written at the device context
DeviceContext_initialize(mem, address, input) ==
    LET input_ctx == [input.bytes EXCEPT ![CONTEXT_SIZE + 15] = 2 * 8,
                                         ![2 * CONTEXT_SIZE] = 1]
    IN [mem EXCEPT !.ctx[address] =
           [j \in DeviceContextBytes |->
               IF j < 2 * CONTEXT_SIZE THEN input_ctx[CONTEXT_SIZE + j] ELSE @[j]]]

\* handle_address_device: get_device_context asserts that the slot is in
\* use, initialize that the flags are exactly A0 and A1
handle_address_device(slot_id, input) ==
    /\ pc[Mmio] = "idle"
    /\ Len(hist.ctx_cmds) < MaxCtxCmds
    /\ LET ok == slot_id \in used_slots /\ input.drop = {} /\ input.add = {0, 1}
       IN /\ IF ok
             THEN /\ dev_mem' = DeviceContext_initialize(
                                   dev_mem, get_device_context(dev_mem, slot_id), input)
                  /\ UNCHANGED pc
             ELSE /\ pc' = [pc EXCEPT ![Mmio] = "dead"]
                  /\ UNCHANGED dev_mem
          /\ hist' = [hist EXCEPT !.ctx_cmds =
                         Append(@, [slot_id |-> slot_id, cmd |-> "AddressDevice",
                                    ok |-> ok, input |-> input, enabled |-> << >>])]
    /\ UNCHANGED << ervars, cur, drv, irqs, ctl_lock, command_ring, used_slots,
                    endpoints, wakeup, ring_mem, ep_ctx, drvq, num_slots, running,
                    bus, dynamic_bus, register_set, xhci >>

\* slot_state::CONFIGURED
CONFIGURED == 3

\* the endpoints pushed by the loop `for i in 1..=31`, in its order
RECURSIVE enabled_from(_, _)
enabled_from(i, add) ==
    IF i > ContextEntries - 1 THEN << >>
    ELSE (IF i \in add THEN << i >> ELSE << >>) \o enabled_from(i + 1, add)

\* a configure_endpoints that disables the dropped endpoints after it has
\* copied the added ones
DeviceContext_configure_endpoints_drop_last(mem, address, input) ==
    LET entry(j) == j \div CONTEXT_SIZE
        first(j) == j % CONTEXT_SIZE = 0
        adds == [j \in DeviceContextBytes |->
                    IF entry(j) >= 1 /\ entry(j) \in input.add
                    THEN (IF first(j) THEN 1 ELSE input.bytes[CONTEXT_SIZE + j])
                    ELSE mem.ctx[address][j]]
        drops == [j \in DeviceContextBytes |->
                     IF first(j) /\ entry(j) >= 2 /\ entry(j) \in input.drop
                     THEN 0 ELSE adds[j]]
        slot == [j \in DeviceContextBytes |->
                    IF entry(j) = 0
                    THEN (IF j = 15 THEN CONFIGURED * 8 ELSE input.bytes[CONTEXT_SIZE + j])
                    ELSE drops[j]]
    IN [res |-> IF 0 \in input.add THEN "Ok" ELSE "Panic",
        mem |-> [mem EXCEPT !.ctx[address] = IF 0 \in input.add THEN slot ELSE drops],
        enabled |-> enabled_from(1, input.add)]

\* DeviceContext::configure_endpoints: the state byte of every dropped
\* endpoint (2..=31) zeroed, then every added endpoint (1..=31) copied with
\* state 1, then the assert on A0, then the slot context copied with slot
\* state Configured.  res is "Panic" when the assert fails.
DeviceContext_configure_endpoints(mem, address, input) ==
    LET entry(j) == j \div CONTEXT_SIZE
        first(j) == j % CONTEXT_SIZE = 0
        drops == [j \in DeviceContextBytes |->
                     IF first(j) /\ entry(j) >= 2 /\ entry(j) \in input.drop
                     THEN 0 ELSE mem.ctx[address][j]]
        adds == [j \in DeviceContextBytes |->
                    IF entry(j) >= 1 /\ entry(j) \in input.add
                    THEN (IF first(j) THEN 1 ELSE input.bytes[CONTEXT_SIZE + j])
                    ELSE drops[j]]
        slot == [j \in DeviceContextBytes |->
                    IF entry(j) = 0
                    THEN (IF j = 15 THEN CONFIGURED * 8 ELSE input.bytes[CONTEXT_SIZE + j])
                    ELSE adds[j]]
    IN [res |-> IF 0 \in input.add THEN "Ok" ELSE "Panic",
        mem |-> [mem EXCEPT !.ctx[address] = IF 0 \in input.add THEN slot ELSE adds],
        enabled |-> enabled_from(1, input.add)]

\* handle_configure_endpoint up to the list of enabled endpoints:
\* get_device_context asserts that the slot is in use
handle_configure_endpoint(slot_id, input) ==
    /\ pc[Mmio] = "idle"
    /\ Len(hist.ctx_cmds) < MaxCtxCmds
    /\ IF slot_id \in used_slots
       THEN LET r == DeviceContext_configure_endpoints(
                         dev_mem, get_device_context(dev_mem, slot_id), input)
            IN /\ dev_mem' = r.mem
               /\ pc' = IF r.res = "Ok" THEN pc ELSE [pc EXCEPT ![Mmio] = "dead"]
               /\ hist' = [hist EXCEPT !.ctx_cmds =
                              Append(@, [slot_id |-> slot_id, cmd |-> "ConfigureEndpoint",
                                         ok |-> r.res = "Ok", input |-> input,
                                         enabled |-> r.enabled])]
       ELSE /\ pc' = [pc EXCEPT ![Mmio] = "dead"]
            /\ hist' = [hist EXCEPT !.ctx_cmds =
                           Append(@, [slot_id |-> slot_id, cmd |-> "ConfigureEndpoint",
                                      ok |-> FALSE, input |-> input, enabled |-> << >>])]
            /\ UNCHANGED dev_mem
    /\ UNCHANGED << ervars, cur, drv, irqs, ctl_lock, command_ring, used_slots,
                    endpoints, wakeup, ring_mem, ep_ctx, drvq, num_slots, running,
                    bus, dynamic_bus, register_set, xhci >>

\* handle_configure_endpoint for a TRB with the deconfigure bit set: the
\* todo!() at the head of the handler unwinds before get_device_context
handle_configure_endpoint_deconfigure(slot_id, input) ==
    /\ pc[Mmio] = "idle"
    /\ Len(hist.ctx_cmds) < MaxCtxCmds
    /\ pc' = [pc EXCEPT ![Mmio] = "dead"]
    /\ hist' = [hist EXCEPT !.ctx_cmds =
                   Append(@, [slot_id |-> slot_id, cmd |-> "ConfigureEndpointDC",
                              ok |-> FALSE, input |-> input, enabled |-> << >>])]
    /\ UNCHANGED << ervars, cur, drv, irqs, ctl_lock, command_ring, used_slots,
                    endpoints, wakeup, ring_mem, ep_ctx, drvq, num_slots, running,
                    bus, dynamic_bus, register_set, xhci, dev_mem >>

\* slot 1 is reserved, slot 2 is not; the DCBAA entries point at the two
\* device contexts either way round
InitCtx ==
    /\ event_ring = EventRingConfigured(ErstSizeSys)
    /\ mem_er = [a \in SlotAddrs |-> zeroed_trb_buffer]
    /\ lock_er = "none"
    /\ poisoned_er = FALSE
    /\ pc = [t \in Threads |-> "idle"]
    /\ cur = [t \in Threads |-> [op |-> "none"]]
    /\ wr_idx = [t \in Threads |-> 0]
    /\ drv = [deq |-> erst_base(0), cycle |-> TRUE, consumed |-> 0,
              seen |-> zeroed_trb_buffer]
    /\ issued = 0
    /\ live = {}
    /\ done = 0
    /\ ctl_lock = "none"
    /\ command_ring = [running |-> FALSE, dequeue_pointer |-> CmdRingBase,
                       cycle_state |-> TRUE]
    /\ used_slots = {1}
    /\ endpoints = {}
    /\ wakeup = [ep \in EndpointIds |-> 0]
    /\ ring_mem = [a \in AllRingAddrs |-> EmptyTrb]
    /\ ep_ctx = [ep \in EndpointIds |-> [state |-> DISABLED, deq |-> 0]]
    /\ drvq = [enq |-> [r \in RingIds |-> RingBase(r)],
               cycle |-> [r \in RingIds |-> TRUE],
               posted |-> [r \in RingIds |-> 0],
               rings |-> 0,
               requests |-> 0]
    /\ hist = HistInit
    /\ irqs = [t \in Threads |-> 0]
    /\ num_slots = 2
    /\ running = FALSE
    /\ \E flip \in 1..2 : dev_mem = DevMemInit(flip)
    /\ xhci = BusUnused
    /\ bus = BusUnused
    /\ dynamic_bus = BusUnused
    /\ register_set = BusUnused

NextCtx ==
    \/ \E slot_id \in 1..2, drop \in {{}, {2}}, add \in {{0, 1}, {0}, {0, 1, 2}} :
          handle_address_device(slot_id, InputContext(drop, add, 3))
    \/ \E slot_id \in 1..2, drop \in DropSets, add \in AddSets :
          handle_configure_endpoint(slot_id, InputContext(drop, add, 5))
    \/ \E slot_id \in 1..2, drop \in DropSets, add \in AddSets :
          handle_configure_endpoint_deconfigure(slot_id, InputContext(drop, add, 5))

SpecCtx == InitCtx /\ [][NextCtx]_vars

\* the step of a context command, and the command it was
CtxCallStep(cmd) ==
    /\ Len(hist'.ctx_cmds) = Len(hist.ctx_cmds) + 1
    /\ hist'.ctx_cmds[Len(hist'.ctx_cmds)].cmd = cmd
CtxLast == hist'.ctx_cmds[Len(hist'.ctx_cmds)]
\* everything of guest memory but the bytes `written` of the context at
\* `address` is as it was
CtxFrame(address, written) ==
    /\ dev_mem'.dcbaa = dev_mem.dcbaa
    /\ \A a \in DevCtxAddrs : \A j \in DeviceContextBytes :
          (a # address \/ j \notin written) => dev_mem'.ctx[a][j] = dev_mem.ctx[a][j]

(* C25 *)
\* C25: an AddressDevice command for a reserved slot whose input control
\* context holds exactly A0 and A1 leaves bytes 0..63 of the device context
\* that the DCBAA entry of the slot points at equal to bytes 32..95 of the
\* input context, except that bits 7:3 of byte 15 are 2 and byte 32 is 1,
\* and writes no other byte of guest memory.
C25_Call ==
    /\ CtxCallStep("AddressDevice")
    /\ CtxLast.slot_id \in used_slots
    /\ CtxLast.input.add = {0, 1}
    /\ CtxLast.input.drop = {}
C25_AddressDeviceCopies ==
    [][C25_Call =>
          LET address == dev_mem.dcbaa[CtxLast.slot_id]
              ctx == dev_mem'.ctx[address]
              input == CtxLast.input.bytes
          IN /\ \A j \in 0..(2 * CONTEXT_SIZE - 1) :
                   j \notin {15, CONTEXT_SIZE} => ctx[j] = input[CONTEXT_SIZE + j]
             /\ ctx[15] \div 8 = 2
             /\ ctx[CONTEXT_SIZE] = RUNNING
             /\ CtxFrame(address, 0..(2 * CONTEXT_SIZE - 1))]_vars
CtxDone == hist.ctx_cmds[Len(hist.ctx_cmds)]
CtxDoneContext == dev_mem.ctx[dev_mem.dcbaa[CtxDone.slot_id]]
C25_Witness ==
    /\ hist.ctx_cmds # << >>
    /\ CtxDone.cmd = "AddressDevice"
    /\ CtxDone.ok
    /\ CtxDoneContext[15] = 16
    /\ CtxDoneContext[CONTEXT_SIZE] = 1
    /\ CtxDoneContext[1] = CtxDone.input.bytes[CONTEXT_SIZE + 1]

(* C26 *)
\* C26: a ConfigureEndpoint command for a reserved slot whose input control
\* context has A0 set leaves, for every i in 1..31, entry i of the device
\* context equal to entry i of the input context with state byte Running
\* when Ai is set (whatever Di is), with only its state byte zeroed when Ai
\* is clear, i >= 2 and Di is set, and unchanged otherwise; the slot context
\* is that of the input context with slot state Configured, and the list of
\* enabled endpoints is the i in 1..31 with Ai set, each once.
C26_Call ==
    /\ CtxCallStep("ConfigureEndpoint")
    /\ CtxLast.slot_id \in used_slots
    /\ 0 \in CtxLast.input.add
C26_ConfigureEndpointCopies ==
    [][C26_Call =>
          LET address == dev_mem.dcbaa[CtxLast.slot_id]
              old == dev_mem.ctx[address]
              ctx == dev_mem'.ctx[address]
              input == CtxLast.input
              enabled == CtxLast.enabled
          IN /\ \A i \in 1..(ContextEntries - 1) : \A k \in 0..(CONTEXT_SIZE - 1) :
                   LET j == i * CONTEXT_SIZE + k
                   IN ctx[j] = IF i \in input.add
                               THEN (IF k = 0 THEN RUNNING ELSE input.bytes[CONTEXT_SIZE + j])
                               ELSE IF i >= 2 /\ i \in input.drop /\ k = 0
                               THEN 0
                               ELSE old[j]
             /\ \A k \in 0..(CONTEXT_SIZE - 1) :
                   k # 15 => ctx[k] = input.bytes[CONTEXT_SIZE + k]
             /\ ctx[15] \div 8 = CONFIGURED
             /\ CtxFrame(address, DeviceContextBytes)
             /\ CtxLast.ok
             /\ {enabled[n] : n \in 1..Len(enabled)} = input.add \ {0}
             /\ Len(enabled) = Cardinality(input.add \ {0})]_vars
C26_Witness ==
    /\ hist.ctx_cmds # << >>
    /\ CtxDone.cmd = "ConfigureEndpoint"
    /\ CtxDone.ok
    /\ CtxDone.input.add = {0, 2, 31}
    /\ CtxDone.input.drop = {1, 2, 31}
    /\ CtxDone.enabled = << 2, 31 >>
    /\ CtxDoneContext[2 * CONTEXT_SIZE] = 1
    /\ CtxDoneContext[15] = 24

(* C37 *)

\* C37: a ConfigureEndpoint command for a reserved slot whose input context
\* has A0 clear, or whose TRB has the deconfigure bit set, is rejected: no
\* byte of the device context (nor any other byte of guest memory) is
\* modified and no endpoint is enabled on the real device.
C37_Call ==
    /\ \/ CtxCallStep("ConfigureEndpoint") /\ 0 \notin CtxLast.input.add
       \/ CtxCallStep("ConfigureEndpointDC")
    /\ CtxLast.slot_id \in used_slots
C37_RejectedWithoutWrites ==
    [][C37_Call =>
          /\ ~CtxLast.ok
          /\ CtxFrame(dev_mem.dcbaa[CtxLast.slot_id], {})]_vars

----------------------------------------------------------------------------
(* Bus (bus.rs, interval.rs) *)

\* the controller's variables, which the bus specifications leave as they
\* are after construction
ctlvars == << event_ring, mem_er, lock_er, poisoned_er, pc, cur, wr_idx, drv,
              issued, live, done, ctl_lock, command_ring, used_slots, endpoints,
              wakeup, ring_mem, ep_ctx, drvq, irqs, num_slots, running, dev_mem,
              xhci >>
ControllerIdle ==
    /\ event_ring = EventRingConfigured(ErstSizeSys)
    /\ mem_er = [a \in SlotAddrs |-> zeroed_trb_buffer]
    /\ lock_er = "none"
    /\ poisoned_er = FALSE
    /\ pc = [t \in Threads |-> "idle"]
    /\ cur = [t \in Threads |-> [op |-> "none"]]
    /\ wr_idx = [t \in Threads |-> 0]
    /\ drv = [deq |-> erst_base(0), cycle |-> TRUE, consumed |-> 0,
              seen |-> zeroed_trb_buffer]
    /\ issued = 0
    /\ live = {}
    /\ done = 0
    /\ ctl_lock = "none"
    /\ command_ring = [running |-> FALSE, dequeue_pointer |-> CmdRingBase,
                       cycle_state |-> TRUE]
    /\ used_slots = {}
    /\ endpoints = {}
    /\ wakeup = [ep \in EndpointIds |-> 0]
    /\ ring_mem = [a \in AllRingAddrs |-> EmptyTrb]
    /\ ep_ctx = [ep \in EndpointIds |-> [state |-> DISABLED, deq |-> 0]]
    /\ drvq = [enq |-> [r \in RingIds |-> RingBase(r)],
               cycle |-> [r \in RingIds |-> TRUE],
               posted |-> [r \in RingIds |-> 0],
               rings |-> 0,
               requests |-> 0]
    /\ irqs = [t \in Threads |-> 0]
    /\ num_slots = MAX_SLOTS
    /\ running = FALSE
    /\ dev_mem = DevMemUnused
    /\ xhci = BusUnused

\* the devices that are put on a bus, and BusDevice::size of each
BusDevices == {"d10", "d4", "d0"}
BusDevice_size(device) ==
    CASE device = "d10" -> 10
      [] device = "d4" -> 4
      [] device = "d0" -> 0
\* the sizes a Bus is built with: Bus::default() and a smaller one
SmallBusSize == 24
BusSizes == {U64_MAX, SmallBusSize}
StartAddrs == {0, 12, 20, U64_MAX}
RequestSizes == {1, 2, 4, 8}
ReqAddrs == {0, 3, 9, 12, 15, 21, 28, U64_MAX}
Requests == [addr : ReqAddrs, size : RequestSizes]

\* u64::checked_add: None on overflow
checked_add(a, b) ==
    IF a + b > U64_MAX THEN [some |-> FALSE, value |-> 0] ELSE [some |-> TRUE, value |-> a + b]

\* Interval for Range<u64> (interval.rs)
max(a, b) == IF a >= b THEN a ELSE b
min(a, b) == IF a <= b THEN a ELSE b
is_empty(r) == ~(r.start < r.end)
intersection(a, b) == [start |-> max(a.start, b.start), end |-> min(a.end, b.end)]
contains_interval(a, b) == intersection(a, b) = b
overlaps(a, b) == ~is_empty(a) /\ ~is_empty(intersection(a, b))

\* Bus::new: no devices, a DefaultDevice of the given size as default
Bus_new(size) == [size |-> size, devices |-> << >>]

\* an add that does not look for overlapping devices
Bus_add_no_overlap_check(b, start_addr, device) ==
    LET end == checked_add(start_addr, BusDevice_size(device))
    IN IF ~end.some \/ end.value > b.size
       THEN [res |-> "DeviceOutOfRange", bus |-> b]
       ELSE [res |-> "Ok",
             bus |-> [b EXCEPT !.devices =
                         Append(@, [range |-> [start |-> start_addr, end |-> end.value],
                                    device |-> device])]]

\* Bus::add
Bus_add(b, start_addr, device) ==
    LET end == checked_add(start_addr, BusDevice_size(device))
    IN IF ~end.some
       THEN [res |-> "DeviceOutOfRange", bus |-> b]
       ELSE LET range == [start |-> start_addr, end |-> end.value]
            IN IF range.end > b.size
               THEN [res |-> "DeviceOutOfRange", bus |-> b]
               ELSE IF \E n \in 1..Len(b.devices) : overlaps(b.devices[n].range, range)
               THEN [res |-> "OverlapsExistingDevice", bus |-> b]
               ELSE [res |-> "Ok",
                     bus |-> [b EXCEPT !.devices =
                                 Append(@, [range |-> range, device |-> device])]]

\* the loop of to_device_request from entry n on
RECURSIVE to_device_request_from(_, _, _, _)
to_device_request_from(b, req, req_range, n) ==
    IF n > Len(b.devices)
    THEN [target |-> "None", req |-> req]
    ELSE LET entry == b.devices[n]
         IN IF contains_interval(entry.range, req_range)
            THEN [target |-> entry.device,
                  req |-> [req EXCEPT !.addr = req.addr - entry.range.start]]
            ELSE IF overlaps(entry.range, req_range)
            THEN [target |-> "error_device", req |-> req]
            ELSE to_device_request_from(b, req, req_range, n + 1)

\* a to_device_request that hands the request on with its bus address
to_device_request_absolute(b, req) ==
    LET end == checked_add(req.addr, req.size)
        r == IF ~end.some THEN [target |-> "None", req |-> req]
             ELSE to_device_request_from(b, req, [start |-> req.addr, end |-> end.value], 1)
    IN [r EXCEPT !.req = req]

\* Bus::to_device_request: None for a wrapping request
to_device_request(b, req) ==
    LET end == checked_add(req.addr, req.size)
    IN IF ~end.some
       THEN [target |-> "None", req |-> req]
       ELSE to_device_request_from(b, req, [start |-> req.addr, end |-> end.value], 1)

\* DefaultDevice::read: all bits of the request's bytes set
DefaultDevice_read(req) == [i \in 1..req.size |-> 255]

\* Bus::read and Bus::write: the device the request is handed to, the
\* request as handed on, and for a read of the error device or the default
\* device the value; a write to either is ignored
Bus_route(b, req) ==
    LET r == to_device_request(b, req)
    IN IF r.target = "None"
       THEN [target |-> "default", req |-> req]
       ELSE r

BusAdd(start_addr, device) ==
    /\ Len(bus.devices) < MaxBusAdds
    /\ LET r == Bus_add(bus, start_addr, device)
       IN /\ bus' = r.bus
          /\ hist' = [hist EXCEPT !.bus_last =
                         [tick |-> ~@.tick, op |-> "add", start_addr |-> start_addr,
                          device |-> device, res |-> r.res]]
    /\ UNCHANGED << ctlvars, dynamic_bus, register_set >>

BusRead(req) ==
    /\ LET r == Bus_route(bus, req)
       IN hist' = [hist EXCEPT !.bus_last =
                      [tick |-> ~@.tick, op |-> "read", asked |-> req,
                       target |-> r.target, req |-> r.req,
                       value |-> IF r.target \in {"default", "error_device"}
                                 THEN DefaultDevice_read(r.req)
                                 ELSE << >>]]
    /\ UNCHANGED << ctlvars, bus, dynamic_bus, register_set >>

BusWrite(req) ==
    /\ LET r == Bus_route(bus, req)
       IN hist' = [hist EXCEPT !.bus_last =
                      [tick |-> ~@.tick, op |-> "write", asked |-> req,
                       target |-> r.target, req |-> r.req]]
    /\ UNCHANGED << ctlvars, bus, dynamic_bus, register_set >>

InitBus ==
    /\ ControllerIdle
    /\ hist = HistInit
    /\ \E size \in BusSizes : bus = Bus_new(size)
    /\ dynamic_bus = BusUnused
    /\ register_set = BusUnused

NextBus ==
    \/ \E start_addr \in StartAddrs, device \in BusDevices : BusAdd(start_addr, device)
    \/ \E req \in Requests : BusRead(req)
    \/ \E req \in Requests : BusWrite(req)

SpecBus == InitBus /\ [][NextBus]_vars

\* the step of a call on the Bus
BusCallStep(op) == hist'.bus_last.tick # hist.bus_last.tick /\ hist'.bus_last.op = op
\* the addresses of a range of true integers
RangeAddrs(start, size) == start..(start + size - 1)
EntryAddrs(entry) == RangeAddrs(entry.range.start, entry.range.end - entry.range.start)
BusEntries == {bus.devices[n] : n \in 1..Len(bus.devices)}

----------------------------------------------------------------------------
(* DynamicBus (dynamic_bus.rs) *)

\* the threads that call add, and those that read and write
Adders == {"a1", "a2"}
Readers == {"r1"}
DynSegments == [start_addr : {0, 12}, device : {"d10", "d4"}]
DynRequests == {[addr |-> 3, size |-> 1], [addr |-> 3, size |-> 4], [addr |-> 13, size |-> 1]}

\* a load that hands out the bus an add is still building
load_new_bus(d) ==
    IF \E a \in Adders : d.add[a].pc = "build"
    THEN d.add[CHOOSE a \in Adders : d.add[a].pc = "build"].new_bus
    ELSE d.bus

\* ArcSwap::load: the Bus that was stored last
load(d) == d.bus

\* DynamicBus::add, line by line.  `let mut new_bus = Bus::new(..)`
DynAddCall(a, segment) ==
    /\ dynamic_bus.add[a].pc = "idle"
    /\ hist.dyn_adds < MaxDynAdds
    /\ dynamic_bus' = [dynamic_bus EXCEPT !.add[a] =
                          [pc |-> "lock", segment |-> segment,
                           new_bus |-> Bus_new(U64_MAX), next |-> 1]]
    /\ hist' = [hist EXCEPT !.dyn_adds = @ + 1]
    /\ UNCHANGED << ctlvars, bus, register_set >>
\* `self.segments.lock().unwrap()`
DynAddLock(a) ==
    /\ dynamic_bus.add[a].pc = "lock"
    /\ dynamic_bus.lock = "none"
    /\ dynamic_bus' = [dynamic_bus EXCEPT !.lock = a, !.add[a].pc = "push"]
    /\ UNCHANGED hist
    /\ UNCHANGED << ctlvars, bus, register_set >>
\* `segments.push(DeviceEntry { start_addr, device })`
DynAddPush(a) ==
    /\ dynamic_bus.add[a].pc = "push"
    /\ dynamic_bus' = [dynamic_bus EXCEPT !.segments = Append(@, dynamic_bus.add[a].segment),
                                          !.add[a].pc = "build"]
    /\ UNCHANGED hist
    /\ UNCHANGED << ctlvars, bus, register_set >>
\* one turn of `for segment in segments.iter() { new_bus.add(..)? }`: the
\* `?` returns the error, which drops the guard
DynAddBuild(a) ==
    /\ dynamic_bus.add[a].pc = "build"
    /\ dynamic_bus.add[a].next <= Len(dynamic_bus.segments)
    /\ LET segment == dynamic_bus.segments[dynamic_bus.add[a].next]
           r == Bus_add(dynamic_bus.add[a].new_bus, segment.start_addr, segment.device)
       IN /\ dynamic_bus' =
             IF r.res = "Ok"
             THEN [dynamic_bus EXCEPT !.add[a].new_bus = r.bus, !.add[a].next = @ + 1]
             ELSE [dynamic_bus EXCEPT !.add[a] = [pc |-> "idle"], !.lock = "none"]
          /\ hist' = IF r.res = "Ok" THEN hist
                     ELSE [hist EXCEPT !.dyn_add_last =
                              [tick |-> ~@.tick, segment |-> dynamic_bus.add[a].segment,
                               res |-> r.res]]
    /\ UNCHANGED << ctlvars, bus, register_set >>
\* `self.bus.store(Arc::new(new_bus))`
DynAddStore(a) ==
    /\ dynamic_bus.add[a].pc = "build"
    /\ dynamic_bus.add[a].next > Len(dynamic_bus.segments)
    /\ dynamic_bus' = [dynamic_bus EXCEPT !.bus = dynamic_bus.add[a].new_bus,
                                          !.add[a].pc = "return"]
    /\ hist' = [hist EXCEPT !.dyn_published = Append(@, dynamic_bus.add[a].new_bus)]
    /\ UNCHANGED << ctlvars, bus, register_set >>
\* `Ok(())`: the guard is dropped
DynAddReturn(a) ==
    /\ dynamic_bus.add[a].pc = "return"
    /\ dynamic_bus' = [dynamic_bus EXCEPT !.add[a] = [pc |-> "idle"], !.lock = "none"]
    /\ hist' = [hist EXCEPT !.dyn_ok = @ \cup {dynamic_bus.add[a].segment},
                            !.dyn_add_last =
                                [tick |-> ~@.tick, segment |-> dynamic_bus.add[a].segment,
                                 res |-> "Ok"]]
    /\ UNCHANGED << ctlvars, bus, register_set >>

\* BusDevice::read and write for DynamicBus: `self.bus.load()`
DynLoad(r, op, req) ==
    /\ dynamic_bus.rd[r].pc = "idle"
    /\ hist.dyn_reads < MaxDynReads
    /\ dynamic_bus' = [dynamic_bus EXCEPT !.rd[r] =
                          [pc |-> "route", op |-> op, req |-> req,
                           snapshot |-> load(dynamic_bus),
                           from |-> Len(hist.dyn_published)]]
    /\ hist' = [hist EXCEPT !.dyn_reads = @ + 1]
    /\ UNCHANGED << ctlvars, bus, register_set >>
\* `.read(req)`, `.write(req, value)` on the Bus that was loaded
DynRoute(r) ==
    /\ dynamic_bus.rd[r].pc = "route"
    /\ LET rd == dynamic_bus.rd[r]
           route == Bus_route(rd.snapshot, rd.req)
       IN hist' = [hist EXCEPT !.dyn_last =
                      [tick |-> ~@.tick, op |-> rd.op, asked |-> rd.req,
                       from |-> rd.from, target |-> route.target, req |-> route.req]]
    /\ dynamic_bus' = [dynamic_bus EXCEPT !.rd[r] = [pc |-> "idle"]]
    /\ UNCHANGED << ctlvars, bus, register_set >>

\* DynamicBus::new: no segments, Bus::default() published
InitDyn ==
    /\ ControllerIdle
    /\ hist = [HistInit EXCEPT !.dyn_published = << Bus_new(U64_MAX) >>]
    /\ bus = BusUnused
    /\ register_set = BusUnused
    /\ dynamic_bus = [segments |-> << >>, lock |-> "none", bus |-> Bus_new(U64_MAX),
                      add |-> [a \in Adders |-> [pc |-> "idle"]],
                      rd |-> [r \in Readers |-> [pc |-> "idle"]]]

NextDyn ==
    \/ \E a \in Adders, segment \in DynSegments : DynAddCall(a, segment)
    \/ \E a \in Adders : DynAddLock(a)
    \/ \E a \in Adders : DynAddPush(a)
    \/ \E a \in Adders : DynAddBuild(a)
    \/ \E a \in Adders : DynAddStore(a)
    \/ \E a \in Adders : DynAddReturn(a)
    \/ \E r \in Readers, op \in {"read", "write"}, req \in DynRequests : DynLoad(r, op, req)
    \/ \E r \in Readers : DynRoute(r)

SpecDyn == InitDyn /\ [][NextDyn]_vars

(* C27 *)
DynRouteStep == hist'.dyn_last.tick # hist.dyn_last.tick
DevicesOf(b) == {b.devices[n] : n \in 1..Len(b.devices)}
\* C27: a read or write on the DynamicBus is routed as one of the buses
\* published from its load on routes it, never as a bus that is being built;
\* it reaches every device of the bus published when it began whose range
\* contains it; every add that has returned Ok has its device on the
\* published bus, and a published bus holds every device of the one before.
C27_RoutedByPublishedBus ==
    [][/\ DynRouteStep =>
             LET last == hist'.dyn_last
                 pub == hist'.dyn_published
             IN /\ \E k \in last.from..Len(pub) :
                      Bus_route(pub[k], last.asked) = [target |-> last.target, req |-> last.req]
                /\ \A e \in DevicesOf(pub[last.from]) :
                      RangeAddrs(last.asked.addr, last.asked.size) \subseteq EntryAddrs(e) =>
                         /\ last.target = e.device
                         /\ last.req = [addr |-> last.asked.addr - e.range.start,
                                        size |-> last.asked.size]
       /\ \A seg \in hist'.dyn_ok : \E e \in DevicesOf(dynamic_bus'.bus) :
             e.device = seg.device /\ e.range.start = seg.start_addr
       /\ hist'.dyn_published[Len(hist'.dyn_published)] = dynamic_bus'.bus
       /\ \A k \in 1..(Len(hist'.dyn_published) - 1) :
             DevicesOf(hist'.dyn_published[k]) \subseteq DevicesOf(hist'.dyn_published[k + 1])]_vars
C27_Witness ==
    /\ hist.dyn_last.op = "read"
    /\ hist.dyn_last.from < Len(hist.dyn_published)
    /\ hist.dyn_last.from > 1
    /\ hist.dyn_last.target = "default"
    /\ Bus_route(dynamic_bus.bus, hist.dyn_last.asked).target = "d4"
    /\ Cardinality(hist.dyn_ok) = 2

(* C28 *)
\* C28: whatever the order in which the devices were added, a read or write
\* whose bytes all lie in the range [s, e) of one device is handed to that
\* device with address addr - s; one that shares bytes with a device without
\* lying in it goes to the error device (a read gives all bits of its size
\* set); one that shares no byte with any device, or whose addr + size
\* is more than u64::MAX, goes to the default device as it is.
C28_RoutingIsReference ==
    [][BusCallStep("read") \/ BusCallStep("write") =>
          LET last == hist'.bus_last
              asked == last.asked
              bytes == RangeAddrs(asked.addr, asked.size)
              wraps == asked.addr + asked.size > U64_MAX
              contained == {e \in BusEntries : ~wraps /\ bytes \subseteq EntryAddrs(e)}
              touched == {e \in BusEntries : ~wraps /\ bytes \cap EntryAddrs(e) # {}}
          IN /\ bus' = bus
             /\ IF contained # {}
                THEN \E e \in contained :
                        /\ last.target = e.device
                        /\ last.req = [addr |-> asked.addr - e.range.start,
                                       size |-> asked.size]
                ELSE IF touched # {}
                THEN /\ last.target = "error_device"
                     /\ last.op = "read" => last.value = [i \in 1..asked.size |-> 255]
                ELSE /\ last.target = "default"
                     /\ last.req = asked]_vars
C28_Witness ==
    /\ Len(bus.devices) = 2
    /\ bus.devices[1].range.start > bus.devices[2].range.start
    /\ hist.bus_last.op = "read"
    /\ hist.bus_last.target = bus.devices[2].device
    /\ hist.bus_last.req.addr = 3
    /\ hist.bus_last.asked.addr = 15

(* C29 *)
\* C29: the ranges of the devices on a Bus are pairwise disjoint and end at
\* or below the size of the bus.
BusRangesDisjoint ==
    /\ \A n \in 1..Len(bus.devices) : bus.devices[n].range.end <= bus.size
    /\ \A n, k \in 1..Len(bus.devices) :
          n # k => EntryAddrs(bus.devices[n]) \cap EntryAddrs(bus.devices[k]) = {}
\* C29 as stated: an add whose range shares an address with a device on the
\* bus returns OverlapsExistingDevice, one whose range exceeds the bus size
\* or overflows returns DeviceOutOfRange, both leave the devices as they were.
C29_OverlapAlwaysReported ==
    [][BusCallStep("add") =>
          LET last == hist'.bus_last
              size == BusDevice_size(last.device)
              new == RangeAddrs(last.start_addr, size)
          IN /\ BusRangesDisjoint'
             /\ (\E e \in BusEntries : new \cap EntryAddrs(e) # {}) =>
                   last.res = "OverlapsExistingDevice" /\ bus' = bus
             /\ last.start_addr + size > bus.size =>
                   last.res = "DeviceOutOfRange" /\ bus' = bus]_vars
\* C29 (amended): an add whose range exceeds the bus size or overflows
\* returns DeviceOutOfRange; otherwise one whose range shares an address with
\* a device on the bus returns OverlapsExistingDevice; both leave the devices
\* as they were, any other add appends the device, and the ranges on the bus
\* stay pairwise disjoint and within the bus size.
C29_AddRejects ==
    [][BusCallStep("add") =>
          LET last == hist'.bus_last
              size == BusDevice_size(last.device)
              new == RangeAddrs(last.start_addr, size)
              out == last.start_addr + size > bus.size
              shared == \E e \in BusEntries : new \cap EntryAddrs(e) # {}
          IN /\ BusRangesDisjoint'
             /\ out => last.res = "DeviceOutOfRange" /\ bus' = bus
             /\ ~out /\ shared => last.res = "OverlapsExistingDevice" /\ bus' = bus
             /\ ~out /\ ~shared =>
                   /\ last.res = "Ok"
                   /\ bus'.devices = Append(bus.devices,
                         [range |-> [start |-> last.start_addr,
                                     end |-> last.start_addr + size],
                          device |-> last.device])]_vars
C29_Witness ==
    /\ Len(bus.devices) = 1
    /\ bus.size = SmallBusSize
    /\ bus.devices[1].range = [start |-> 12, end |-> 22]
    /\ hist.bus_last.op = "add"
    /\ hist.bus_last.start_addr = 20
    /\ hist.bus_last.device = "d10"
    /\ hist.bus_last.res = "DeviceOutOfRange"

(* C35 *)
DynAddReturnStep == hist'.dyn_add_last.tick # hist.dyn_add_last.tick
SegmentAddrs(segment) == RangeAddrs(segment.start_addr, BusDevice_size(segment.device))
\* C35: an add that returns an error leaves the published bus as it was,
\* and an add of a device whose range shares no address with the devices
\* added successfully before returns Ok, with the device on the published
\* bus when it returns.
C35_FailedAddLeavesBus ==
    [][DynAddReturnStep =>
          LET last == hist'.dyn_add_last
          IN /\ last.res # "Ok" => dynamic_bus'.bus = dynamic_bus.bus
             /\ (\A s \in hist.dyn_ok : SegmentAddrs(s) \cap SegmentAddrs(last.segment) = {})
                   => /\ last.res = "Ok"
                      /\ \E e \in DevicesOf(dynamic_bus'.bus) :
                            /\ e.device = last.segment.device
                            /\ e.range.start = last.segment.start_addr]_vars

----------------------------------------------------------------------------
(* RegisterSet (register_set.rs) *)

\* RegisterSet<SIZE>
SIZE == 4
Offsets == 0..(SIZE - 1)
BitMasks == {1, 2, 4, 8, 16, 32, 64, 128}

\* & | ! on u8
RECURSIVE and_from(_, _, _)
and_from(a, b, m) ==
    IF m \notin BitMasks THEN 0
    ELSE (IF bit_set(a, m) /\ bit_set(b, m) THEN m ELSE 0) + and_from(a, b, 2 * m)
and_u8(a, b) == and_from(a, b, 1)
or_u8(a, b) == a + b - and_u8(a, b)
not_u8(a) == 255 - a

\* the register sets a RegisterSetBuilder<4> builds:
\* u8_ro_at(0, 0xAB).u8_at(1, 0x10, 0x0F).u8_w1c_at(2, 0xFF).u8_rw_at(3, 0), and
\* u16_le_at(0, 0xCAFE, 0x0F0F).u16_le_w1c_at(2, 0xA5FF)
RegisterSets ==
    { [data |-> [o \in Offsets |-> << 171, 16, 255, 0 >>[o + 1]],
       rw_mask |-> [o \in Offsets |-> << 0, 15, 0, 255 >>[o + 1]],
       w1c_mask |-> [o \in Offsets |-> << 0, 0, 255, 0 >>[o + 1]],
       poisoned |-> FALSE],
      [data |-> [o \in Offsets |-> << 254, 202, 255, 165 >>[o + 1]],
       rw_mask |-> [o \in Offsets |-> << 15, 15, 0, 0 >>[o + 1]],
       w1c_mask |-> [o \in Offsets |-> << 0, 0, 255, 255 >>[o + 1]],
       poisoned |-> FALSE] }
\* the values written: 0, 0x4433, 0x10203040
WriteValues == {0, 17459, 270544960}

\* the body of the loop without its last statement
write_register_byte_no_clear(old, rw, w1c, byte) ==
    or_u8(and_u8(old, not_u8(rw)), and_u8(byte, rw))

\* the body of the loop in RegisterSet::write for one byte
write_register_byte(old, rw, w1c, byte) ==
    LET cleared == and_u8(old, not_u8(rw))
        populated == or_u8(cleared, and_u8(byte, rw))
    IN and_u8(populated, not_u8(and_u8(byte, w1c)))

\* RegisterSet::write: the bytes of the request zipped with val.to_le_bytes();
\* self.data[off] panics for an offset past the end, after the bytes
\* before it were written
RegisterSet_write(rs, req, val) ==
    [rs EXCEPT
        !.data = [off \in Offsets |->
                     IF req.addr <= off /\ off < req.addr + req.size
                     THEN write_register_byte(rs.data[off], rs.rw_mask[off], rs.w1c_mask[off],
                                     le_byte(val, off - req.addr))
                     ELSE rs.data[off]],
        !.poisoned = req.addr + req.size > SIZE]

\* a bus write through Mutex<RegisterSet>
RegWrite(req, val) ==
    /\ ~register_set.poisoned
    /\ Len(hist.reg_writes) < MaxRegWrites
    /\ register_set' = RegisterSet_write(register_set, req, val)
    /\ hist' = [hist EXCEPT !.reg_writes =
                   Append(@, [addr |-> req.addr, size |-> req.size, val |-> val])]
    /\ UNCHANGED << ctlvars, bus, dynamic_bus >>

InitReg ==
    /\ ControllerIdle
    /\ hist = HistInit
    /\ bus = BusUnused
    /\ dynamic_bus = BusUnused
    /\ register_set \in RegisterSets

NextReg ==
    \E addr \in Offsets, size \in RequestSizes, val \in WriteValues :
        RegWrite([addr |-> addr, size |-> size], val)

SpecReg == InitReg /\ [][NextReg]_vars

(* C30 *)
\* the register set as built, found by its masks
BuiltData ==
    (CHOOSE rs \in RegisterSets :
        rs.rw_mask = register_set.rw_mask /\ rs.w1c_mask = register_set.w1c_mask).data
\* the writes, oldest first, that covered the byte at off, as the byte each
\* of them had for it
RECURSIVE BytesWritten(_, _)
BytesWritten(writes, off) ==
    IF writes = << >> THEN << >>
    ELSE LET w == writes[Len(writes)]
             rest == BytesWritten(SubSeq(writes, 1, Len(writes) - 1), off)
         IN IF w.addr <= off /\ off < w.addr + w.size
            THEN Append(rest, (w.val \div (256 ^ (off - w.addr))) % 256)
            ELSE rest
RegWriteStep == Len(hist'.reg_writes) = Len(hist.reg_writes) + 1
\* C30: after any bus writes to a RegisterSet, a bit in neither mask has its
\* build-time value, a bit of the RW mask has the value last written to it
\* (its build-time value when none was), a bit of the W1C mask that was
\* written with 1 is 0; no write changes a W1C bit from 0 to 1, and a write
\* of size n changes no byte but the n it addresses.
C30_WriteMasks ==
    [][RegWriteStep =>
          LET w == hist'.reg_writes[Len(hist'.reg_writes)]
          IN \A off \in Offsets :
                LET written == BytesWritten(hist'.reg_writes, off)
                IN /\ \A m \in BitMasks :
                      LET now == bit_set(register_set'.data[off], m)
                      IN /\ ~bit_set(register_set.rw_mask[off], m)
                            /\ ~bit_set(register_set.w1c_mask[off], m)
                               => now = bit_set(BuiltData[off], m)
                         /\ bit_set(register_set.rw_mask[off], m) =>
                               now = IF written = << >>
                                     THEN bit_set(BuiltData[off], m)
                                     ELSE bit_set(written[Len(written)], m)
                         /\ bit_set(register_set.w1c_mask[off], m) =>
                               /\ ~(now /\ ~bit_set(register_set.data[off], m))
                               /\ (\E n \in 1..Len(written) : bit_set(written[n], m)) => ~now
                   /\ ~(w.addr <= off /\ off < w.addr + w.size) =>
                         register_set'.data[off] = register_set.data[off]
                   /\ register_set'.rw_mask = register_set.rw_mask
                   /\ register_set'.w1c_mask = register_set.w1c_mask]_vars
C30_Witness ==
    /\ Len(hist.reg_writes) = 3
    /\ hist.reg_writes[1] = [addr |-> 2, size |-> 1, val |-> 270544960]
    /\ hist.reg_writes[2] = [addr |-> 0, size |-> 4, val |-> 0]
    /\ hist.reg_writes[3] = [addr |-> 1, size |-> 2, val |-> 17459]
    /\ register_set.data[2] = 187
    /\ register_set.data[1] \in {19, 195}
    /\ ~register_set.poisoned

----------------------------------------------------------------------------
(* next_request on requests the driver has posted in part (rings.rs) *)

\* SpecPart: TRBs the driver posts on the control ring, one at a time
MaxPartPosts == 5
\* the types of the TRBs it posts
PartTypes == {SETUP_STAGE, DATA_STAGE, STATUS_STAGE, NORMAL}

PartVarsUnchanged ==
    UNCHANGED << event_ring, mem_er, lock_er, poisoned_er, wr_idx, issued, live,
                 done, pc, cur, drv, irqs, ctl_lock, command_ring, used_slots,
                 endpoints, wakeup, num_slots, running, dev_mem, bus, dynamic_bus,
                 register_set, xhci >>

\* the driver writes one TRB at its enqueue position (handing over the Link
\* TRB first when that is where it stands)
PartPost(type) ==
    /\ Len(hist.part_posted) < MaxPartPosts
    /\ Len(hist.part_posted) - hist.req_taken < Cardinality(ReqSlots)
    /\ LET s0 == [mem |-> ring_mem, enq |-> drvq.enq[1], cycle |-> drvq.cycle[1]]
           s1 == ReqPut(s0, type, IF type = SETUP_STAGE THEN << 128, 6, 0, 1, 0, 0, 18, 0 >>
                                  ELSE 4096, FALSE)
       IN /\ ring_mem' = s1.mem
          /\ drvq' = [drvq EXCEPT !.enq[1] = s1.enq, !.cycle[1] = s1.cycle,
                                  !.posted[1] = @ + 1]
          /\ hist' = [hist EXCEPT !.part_posted =
                         Append(@, [type |-> type, address |-> s1.at])]
    /\ UNCHANGED ep_ctx
    /\ PartVarsUnchanged

\* the driver, standing at a Link TRB, hands it over before it has a TRB to
\* put behind it; on a full ring the Link TRB of the lap before may not
\* have been followed yet, and the driver leaves it alone
PartLink ==
    /\ drvq.enq[1] \in ReqLinks
    /\ Len(hist.part_posted) < MaxPartPosts
    /\ Len(hist.part_posted) - hist.req_taken < Cardinality(ReqSlots)
    /\ ring_mem' = [ring_mem EXCEPT ![drvq.enq[1]] =
                       Trb(LINK, drvq.cycle[1], ReqLinkTarget(drvq.enq[1]),
                           ReqLinkToggle(drvq.enq[1]))]
    /\ drvq' = [drvq EXCEPT !.enq[1] = ReqLinkTarget(drvq.enq[1]),
                            !.cycle[1] = IF ReqLinkToggle(drvq.enq[1]) THEN ~@ ELSE @]
    /\ UNCHANGED << ep_ctx, hist >>
    /\ PartVarsUnchanged

\* one call of TransferRing::next_request for the control endpoint
PartNext ==
    /\ hist.req_last.res # "Panic"
    /\ LET r == next_request(ep_ctx[1], ring_mem)
       IN /\ ep_ctx' = [ep_ctx EXCEPT ![1] = r.ctx]
          /\ hist' = [hist EXCEPT
                 !.req_taken = @ + r.n,
                 !.req_last = [tick |-> ~@.tick, res |-> r.res,
                               err |-> IF r.res = "Err"
                                       THEN RequestParseError(ep_ctx[1], ring_mem)
                                       ELSE "none",
                               address |-> r.address,
                               taken |-> r.n,
                               earlier |-> IF "err" \in DOMAIN @ THEN @.err
                                           ELSE "none"]]
    /\ UNCHANGED << ring_mem, drvq >>
    /\ PartVarsUnchanged

NextPart ==
    \/ \E type \in PartTypes : PartPost(type)
    \/ PartLink
    \/ PartNext

SpecPart == InitReq /\ [][NextPart]_vars

(* C33 *)
\* the TRBs posted and not yet taken when a call starts, oldest first
PartWaiting == SubSeq(hist.part_posted, hist.req_taken + 1, Len(hist.part_posted))
\* what a call has to return for them: the result, the error, the number of
\* TRBs it takes
PartExpected ==
    LET w == PartWaiting
        n == Len(w)
    IN IF n = 0 THEN << "None", "none", 0 >>
       ELSE IF w[1].type # SETUP_STAGE THEN << "Err", "UnexpectedTrbType", 1 >>
       ELSE IF n = 1 THEN << "Err", "MissingTrb", 1 >>
       ELSE IF w[2].type = STATUS_STAGE THEN << "Ok", "none", 2 >>
       ELSE IF w[2].type # DATA_STAGE THEN << "Err", "UnexpectedTrbType", 2 >>
       ELSE IF n = 2 THEN << "Err", "MissingTrb", 2 >>
       ELSE IF w[3].type = STATUS_STAGE THEN << "Ok", "none", 3 >>
       ELSE << "Err", "UnexpectedTrbType", 3 >>
\* C33: a call of next_request returns None exactly when no TRB the driver
\* posted is waiting, UnexpectedTrbType exactly when the first waiting TRB
\* is not a Setup Stage or a later one is not the Data or Status Stage
\* expected there, and MissingTrb exactly when the Setup Stage (or Setup and
\* Data Stage) is waiting and the next stage is not posted yet; on an error
\* the TRBs fetched are taken for good: the dequeue pointer in the endpoint
\* context is past them, and the next TRB the ring yields is the one the
\* driver posted after them, not the Setup Stage again.
C33_ErrorsConsume ==
    [][ReqCallStep =>
          LET last == hist'.req_last
              exp == PartExpected
              then == next_transfer_trb(ep_ctx'[1], ring_mem)
          IN /\ last.res = exp[1]
             /\ last.err = exp[2]
             /\ hist'.req_taken = hist.req_taken + exp[3]
             /\ last.res = "None" => ~transfer_trb_fresh(ep_ctx'[1], ring_mem)
             /\ IF Len(hist.part_posted) > hist'.req_taken
                THEN /\ then.res = "Some"
                     /\ then.address = hist.part_posted[hist'.req_taken + 1].address
                ELSE then.res = "None"
             /\ last.res = "Err" =>
                   get_dequeue_pointer_and_cycle_state(ep_ctx'[1])
                       # get_dequeue_pointer_and_cycle_state(ep_ctx[1])]_vars
\* a Setup Stage was posted alone and a call returned MissingTrb; the driver
\* then posted the Status Stage and the retry returned UnexpectedTrbType
\* for it, with both TRBs taken
C33_Witness ==
    /\ Len(hist.part_posted) = 5
    /\ hist.part_posted[4].type = SETUP_STAGE
    /\ hist.part_posted[5].type = STATUS_STAGE
    /\ hist.req_taken = 5
    /\ hist.req_last.res = "Err"
    /\ hist.req_last.err = "UnexpectedTrbType"
    /\ hist.req_last.taken = 1
    /\ hist.req_last.earlier = "MissingTrb"
    /\ get_dequeue_pointer_and_cycle_state(ep_ctx[1]).dequeue_pointer
           = hist.part_posted[5].address + TRB_SIZE

----------------------------------------------------------------------------
(* next_command_trb while the driver writes the TRB (rings.rs, bus.rs) *)

\* SpecTear: writes to doorbell 0, and TRBs the driver writes
MaxTearDoorbells == 2
MaxTearTrbs == 2

\* the slots of the command ring the drain can reach
TearSlots == {CmdRingBase + k * TRB_SIZE : k \in 0..MaxTearTrbs}
TearSlot(k) == CmdRingBase + (k - 1) * TRB_SIZE

\* the bytes of the TRBs the driver writes, with the cycle bit of the first
\* pass: an Address Device command (input context pointer 0x1040, slot 1)
\* and a Configure Endpoint command (input context pointer 0x2080, slot 1)
TearTrb(k) ==
    [i \in 0..15 |->
        CASE i = 0 -> IF k = 1 THEN 64 ELSE 128
          [] i = 1 -> IF k = 1 THEN 16 ELSE 32
          [] i = 12 -> 1
          [] i = 13 -> 4 * (IF k = 1 THEN ADDRESS_DEVICE_COMMAND
                            ELSE CONFIGURE_ENDPOINT_COMMAND)
          [] i = 15 -> 1
          [] OTHER -> 0]
\* what a slot held before: zeroes, or a command of an earlier use of the
\* memory with the cycle bit clear (an Enable Slot command with a stale
\* pointer field)
TearOld ==
    { zeroed_trb_buffer,
      [i \in 0..15 |-> CASE i = 0 -> 255
                         [] i = 13 -> 4 * ENABLE_SLOT_COMMAND
                         [] OTHER -> 0] }

TearVarsUnchanged ==
    UNCHANGED << event_ring, mem_er, lock_er, poisoned_er, drv, issued, live, done,
                 ctl_lock, used_slots, endpoints, wakeup, ep_ctx, irqs, num_slots,
                 running, dev_mem, bus, dynamic_bus, register_set, xhci >>

\* the driver stores one dword of the TRB it is writing: dwords 0, 1 and 2
\* first, the dword with the cycle bit last
TearDrvStore ==
    /\ drvq.trb <= MaxTearTrbs
    /\ ring_mem' = [ring_mem EXCEPT ![TearSlot(drvq.trb)] =
                       [i \in 0..15 |-> IF i \div 4 = drvq.dword
                                        THEN TearTrb(drvq.trb)[i] ELSE @[i]]]
    /\ drvq' = IF drvq.dword = 3 THEN [trb |-> drvq.trb + 1, dword |-> 0]
               ELSE [drvq EXCEPT !.dword = @ + 1]
    /\ UNCHANGED << pc, cur, wr_idx, command_ring, hist >>
    /\ TearVarsUnchanged

\* write_io(DOORBELL_CONTROLLER): doorbell_controller calls next_command_trb,
\* whose next_trb_buffer starts a read_bulk into a zeroed buffer
TearDoorbell ==
    /\ pc[Mmio] = "idle"
    /\ hist.tear_doorbells < MaxTearDoorbells
    /\ hist' = [hist EXCEPT !.tear_doorbells = @ + 1]
    /\ pc' = [pc EXCEPT ![Mmio] = "read_bulk"]
    /\ cur' = [cur EXCEPT ![Mmio] = [op |-> "next_trb_buffer",
                                     trb_buffer |-> zeroed_trb_buffer]]
    /\ wr_idx' = [wr_idx EXCEPT ![Mmio] = 0]
    /\ UNCHANGED << ring_mem, drvq, command_ring >>
    /\ TearVarsUnchanged

\* BusDevice::read_bulk: one Size1 read per byte, in ascending order
read_bulk_step ==
    /\ pc[Mmio] = "read_bulk"
    /\ wr_idx[Mmio] < TRB_SIZE
    /\ cur' = [cur EXCEPT ![Mmio].trb_buffer[wr_idx[Mmio]] =
                  ring_mem[command_ring.dequeue_pointer][wr_idx[Mmio]]]
    /\ wr_idx' = [wr_idx EXCEPT ![Mmio] = @ + 1]
    /\ UNCHANGED << pc, ring_mem, drvq, command_ring, hist >>
    /\ TearVarsUnchanged

\* next_trb_buffer tests the cycle bit of the buffer; a fresh TRB is parsed,
\* next_command_trb advances the dequeue pointer and returns it, and the
\* loop of doorbell_controller handles it and fetches again
TearCheck ==
    /\ pc[Mmio] = "read_bulk"
    /\ wr_idx[Mmio] = TRB_SIZE
    /\ LET trb_buffer == cur[Mmio].trb_buffer
           cycle_bit == trb_buffer[12] % 2 = 1
       IN IF cycle_bit # command_ring.cycle_state
          THEN /\ pc' = [pc EXCEPT ![Mmio] = "idle"]
               /\ cur' = [cur EXCEPT ![Mmio] = [op |-> "none"]]
               /\ wr_idx' = [wr_idx EXCEPT ![Mmio] = 0]
               /\ UNCHANGED << command_ring, hist >>
          ELSE /\ hist' = [hist EXCEPT !.tear_accepted =
                              @ \cup {[address |-> command_ring.dequeue_pointer,
                                       trb_buffer |-> trb_buffer]}]
               /\ command_ring' = [command_ring EXCEPT !.dequeue_pointer = @ + TRB_SIZE]
               /\ cur' = [cur EXCEPT ![Mmio].trb_buffer = zeroed_trb_buffer]
               /\ wr_idx' = [wr_idx EXCEPT ![Mmio] = 0]
               /\ UNCHANGED pc
    /\ UNCHANGED << ring_mem, drvq >>
    /\ TearVarsUnchanged

\* the command ring at its base with cycle state 1; the memory of its slots
\* holds no fresh TRB
InitTear ==
    /\ event_ring = EventRingConfigured(ErstSizeSys)
    /\ mem_er = [a \in SlotAddrs |-> zeroed_trb_buffer]
    /\ lock_er = "none"
    /\ poisoned_er = FALSE
    /\ pc = [t \in Threads |-> "idle"]
    /\ cur = [t \in Threads |-> [op |-> "none"]]
    /\ wr_idx = [t \in Threads |-> 0]
    /\ drv = [deq |-> erst_base(0), cycle |-> TRUE, consumed |-> 0,
              seen |-> zeroed_trb_buffer]
    /\ issued = 0
    /\ live = {}
    /\ done = 0
    /\ ctl_lock = "none"
    /\ command_ring = [running |-> TRUE, dequeue_pointer |-> CmdRingBase,
                       cycle_state |-> TRUE]
    /\ used_slots = {1}
    /\ endpoints = {}
    /\ wakeup = [ep \in EndpointIds |-> 0]
    /\ \E old \in TearOld : ring_mem = [a \in TearSlots |-> old]
    /\ ep_ctx = [ep \in EndpointIds |-> [state |-> DISABLED, deq |-> 0]]
    /\ drvq = [trb |-> 1, dword |-> 0]
    /\ hist = HistInit
    /\ irqs = [t \in Threads |-> 0]
    /\ num_slots = MAX_SLOTS
    /\ running = TRUE
    /\ dev_mem = DevMemUnused
    /\ xhci = BusUnused
    /\ bus = BusUnused
    /\ dynamic_bus = BusUnused
    /\ register_set = BusUnused

NextTear ==
    \/ TearDrvStore
    \/ TearDoorbell
    \/ read_bulk_step
    \/ TearCheck

SpecTear == InitTear /\ [][NextTear]_vars

(* C34 *)
\* C34: every TRB buffer next_command_trb accepts as fresh while the driver
\* writes the slot (payload dwords first, the dword with the cycle bit last)
\* holds the bytes of the TRB the driver wrote there and no byte of what the
\* slot held before.
C34_NoTornTrb ==
    \A c \in hist.tear_accepted :
        \E k \in 1..MaxTearTrbs : c.address = TearSlot(k) /\ c.trb_buffer = TearTrb(k)

----------------------------------------------------------------------------
(* PORTSC registers and port attachment (registers.rs, xhci.rs) *)

\* the port arrays of the controller
NUM_USB3_PORTS == 2
NUM_USB2_PORTS == 2
MAX_PORTS == NUM_USB3_PORTS + NUM_USB2_PORTS

\* portsc: Current Connect Status, Port Enabled, Port Power and the change bits
CCS == 1
PED == 2
PP == 512
CSC == 131072
PEC == 262144
PRC == 2097152
\* 0x00260000
bitmask_rw1c == 2490368
\* the bits of a PORTSC value, as masks
PortscMasks == {2 ^ b : b \in 0..22}

\* & on u64, and a & !b
RECURSIVE and_u64(_, _)
and_u64(a, b) ==
    IF a = 0 \/ b = 0 THEN 0
    ELSE (a % 2) * (b % 2) + 2 * and_u64(a \div 2, b \div 2)
and_not_u64(a, b) == a - and_u64(a, b)

\* realdevice.rs Speed, with None for a device whose speed is not known
Speed == [Full |-> 1, Low |-> 2, High |-> 3, Super |-> 4, SuperPlus |-> 5]
is_usb2_speed(s) == s <= 3
RealDevices == {"super1", "super2", "high", "unknown"}
RealDevice_speed(device) ==
    CASE device \in {"super1", "super2"} -> Speed.Super
      [] device = "high" -> Speed.High
      [] device = "unknown" -> 0

\* SpecPort: guest writes to PORTSC
MaxPortscWrites == 3
\* the values the guest writes: 0, each change bit, all of them with the
\* read-only bits of an attached port, and all bits
PortscWrites == {0, PRC, PEC, CSC, 2490883, 4194303}

PortscRegister_new(initial_value) ==
    [value |-> initial_value, bitmask_rw1c |-> bitmask_rw1c]

\* a plain store of the written value
PortscRegister_write_stores(reg, new_value) == [reg EXCEPT !.value = new_value]

\* PortscRegister::write
PortscRegister_write(reg, new_value) ==
    LET bits_to_clear == and_u64(new_value, reg.bitmask_rw1c)
    IN [reg EXCEPT !.value = and_not_u64(@, bits_to_clear)]

\* the fields of XhciController::new that concern ports and devices
XhciController_new ==
    [device_slots |-> [i \in 1..MAX_PORTS |-> "None"],
     portsc_usb3 |-> [i \in 1..NUM_USB3_PORTS |-> PortscRegister_new(PP)],
     portsc_usb2 |-> [i \in 1..NUM_USB2_PORTS |-> PortscRegister_new(PP)],
     interrupt_line |-> "DummyInterruptLine",
     panicked |-> FALSE]

\* indices (from 1) of the free entries of device_slots, and of the ports
\* without CCS
free_slots(x) == {i \in 1..MAX_PORTS : x.device_slots[i] = "None"}
find_available_port_in_array(ports) ==
    {i \in DOMAIN ports : and_u64(ports[i].value, CCS) = 0}
Min(S) == CHOOSE i \in S : \A j \in S : i <= j

\* XhciController::set_device as a function of the controller; the two
\* expect calls panic, the second after device_slots was written
XhciController_set_device(x, device) ==
    LET speed == RealDevice_speed(device)
        portsc == PortscRegister_new(CCS + PED + PP + CSC + PEC + PRC + speed * 1024)
        with_slot == [x EXCEPT !.device_slots[Min(free_slots(x))] = device]
        usb2 == find_available_port_in_array(x.portsc_usb2)
        usb3 == find_available_port_in_array(x.portsc_usb3)
    IN IF speed = 0 THEN x
       ELSE IF free_slots(x) = {} THEN [x EXCEPT !.panicked = TRUE]
       ELSE IF is_usb2_speed(speed)
            THEN IF usb2 = {} THEN [with_slot EXCEPT !.panicked = TRUE]
                 ELSE [with_slot EXCEPT !.portsc_usb2[Min(usb2)] = portsc]
            ELSE IF usb3 = {} THEN [with_slot EXCEPT !.panicked = TRUE]
                 ELSE [with_slot EXCEPT !.portsc_usb3[Min(usb3)] = portsc]

\* the values the port registers were given when they were made
PortscMade(x) ==
    [usb3 |-> [i \in 1..NUM_USB3_PORTS |-> x.portsc_usb3[i].value],
     usb2 |-> [i \in 1..NUM_USB2_PORTS |-> x.portsc_usb2[i].value]]

set_device(device) ==
    /\ ~xhci.panicked
    /\ device \notin {hist.attached[n] : n \in 1..Len(hist.attached)}
    /\ xhci' = XhciController_set_device(xhci, device)
    /\ hist' = [hist EXCEPT
                   !.portsc_made =
                       [usb3 |-> [i \in 1..NUM_USB3_PORTS |->
                                     IF xhci'.portsc_usb3[i] # xhci.portsc_usb3[i]
                                     THEN xhci'.portsc_usb3[i].value ELSE @.usb3[i]],
                        usb2 |-> [i \in 1..NUM_USB2_PORTS |->
                                     IF xhci'.portsc_usb2[i] # xhci.portsc_usb2[i]
                                     THEN xhci'.portsc_usb2[i].value ELSE @.usb2[i]]],
                   !.attached = Append(@, device)]
    /\ UNCHANGED << event_ring, mem_er, lock_er, poisoned_er, pc, cur, wr_idx, drv,
                    issued, live, done, ctl_lock, command_ring, used_slots,
                    endpoints, wakeup, ring_mem, ep_ctx, drvq, irqs, num_slots,
                    running, dev_mem, bus, dynamic_bus, register_set >>

PortscWritten(array, port_idx, value) ==
    hist' = [hist EXCEPT !.portsc_last = [tick |-> ~@.tick, array |-> array,
                                          port_idx |-> port_idx, value |-> value],
                         !.portsc_writes = @ + 1]

\* write_io on the PORTSC of a USB3 port: XhciController::write_usb3_portsc
write_usb3_portsc(port_idx, value) ==
    /\ ~xhci.panicked
    /\ hist.portsc_writes < MaxPortscWrites
    /\ xhci' = [xhci EXCEPT !.portsc_usb3[port_idx] = PortscRegister_write(@, value)]
    /\ PortscWritten("usb3", port_idx, value)
    /\ UNCHANGED << event_ring, mem_er, lock_er, poisoned_er, pc, cur, wr_idx, drv,
                    issued, live, done, ctl_lock, command_ring, used_slots,
                    endpoints, wakeup, ring_mem, ep_ctx, drvq, irqs, num_slots,
                    running, dev_mem, bus, dynamic_bus, register_set >>

write_usb2_portsc(port_idx, value) ==
    /\ ~xhci.panicked
    /\ hist.portsc_writes < MaxPortscWrites
    /\ xhci' = [xhci EXCEPT !.portsc_usb2[port_idx] = PortscRegister_write(@, value)]
    /\ PortscWritten("usb2", port_idx, value)
    /\ UNCHANGED << event_ring, mem_er, lock_er, poisoned_er, pc, cur, wr_idx, drv,
                    issued, live, done, ctl_lock, command_ring, used_slots,
                    endpoints, wakeup, ring_mem, ep_ctx, drvq, irqs, num_slots,
                    running, dev_mem, bus, dynamic_bus, register_set >>

InitPort ==
    /\ event_ring = EventRingConfigured(ErstSizeSys)
    /\ mem_er = [a \in SlotAddrs |-> zeroed_trb_buffer]
    /\ lock_er = "none"
    /\ poisoned_er = FALSE
    /\ pc = [t \in Threads |-> "idle"]
    /\ cur = [t \in Threads |-> [op |-> "none"]]
    /\ wr_idx = [t \in Threads |-> 0]
    /\ drv = [deq |-> erst_base(0), cycle |-> TRUE, consumed |-> 0,
              seen |-> zeroed_trb_buffer]
    /\ issued = 0
    /\ live = {}
    /\ done = 0
    /\ ctl_lock = "none"
    /\ command_ring = [running |-> FALSE, dequeue_pointer |-> CmdRingBase,
                       cycle_state |-> TRUE]
    /\ used_slots = {}
    /\ endpoints = {}
    /\ wakeup = [ep \in EndpointIds |-> 0]
    /\ ring_mem = [a \in AllRingAddrs |-> EmptyTrb]
    /\ ep_ctx = [ep \in EndpointIds |-> [state |-> DISABLED, deq |-> 0]]
    /\ drvq = [enq |-> [r \in RingIds |-> RingBase(r)],
               cycle |-> [r \in RingIds |-> TRUE],
               posted |-> [r \in RingIds |-> 0],
               rings |-> 0,
               requests |-> 0]
    /\ irqs = [t \in Threads |-> 0]
    /\ num_slots = MAX_SLOTS
    /\ running = FALSE
    /\ dev_mem = DevMemUnused
    /\ xhci = XhciController_new
    /\ hist = [HistInit EXCEPT !.portsc_made = PortscMade(XhciController_new)]
    /\ bus = BusUnused
    /\ dynamic_bus = BusUnused
    /\ register_set = BusUnused

NextPort ==
    \/ \E device \in RealDevices : set_device(device)
    \/ \E port_idx \in 1..NUM_USB3_PORTS, value \in PortscWrites :
          write_usb3_portsc(port_idx, value)
    \/ \E port_idx \in 1..NUM_USB2_PORTS, value \in PortscWrites :
          write_usb2_portsc(port_idx, value)

SpecPort == InitPort /\ [][NextPort]_vars

(* C31 *)
PortscWriteStep == hist'.portsc_last.tick # hist.portsc_last.tick
Rw1cMasks == {CSC, PEC, PRC}
\* C31: on every guest write to a PORTSC register, and on every attachment,
\* each bit outside 17, 18 and 21 of every port register has the value the
\* register was made with (at construction or when a device was attached to
\* the port); a write to a port leaves each of the bits 17, 18 and 21 set
\* exactly when it was set before and the written value has 0 there, so it
\* sets none of them, and it changes no other port register.
C31_PortscWriteClearsOnly ==
    [][/\ \A m \in PortscMasks \ Rw1cMasks :
             /\ \A i \in 1..NUM_USB3_PORTS :
                   bit_set(xhci'.portsc_usb3[i].value, m)
                       = bit_set(hist'.portsc_made.usb3[i], m)
             /\ \A i \in 1..NUM_USB2_PORTS :
                   bit_set(xhci'.portsc_usb2[i].value, m)
                       = bit_set(hist'.portsc_made.usb2[i], m)
       /\ PortscWriteStep =>
             LET last == hist'.portsc_last
                 before == IF last.array = "usb3" THEN xhci.portsc_usb3
                           ELSE xhci.portsc_usb2
                 after == IF last.array = "usb3" THEN xhci'.portsc_usb3
                          ELSE xhci'.portsc_usb2
             IN /\ \A m \in Rw1cMasks :
                      bit_set(after[last.port_idx].value, m)
                          = (bit_set(before[last.port_idx].value, m)
                                /\ ~bit_set(last.value, m))
                /\ \A i \in DOMAIN after : i # last.port_idx => after[i] = before[i]
                /\ last.array = "usb3" => xhci'.portsc_usb2 = xhci.portsc_usb2
                /\ last.array = "usb2" => xhci'.portsc_usb3 = xhci.portsc_usb3
                /\ after[last.port_idx].value < 2 ^ 23]_vars
\* a device was attached to the first USB3 port, the guest acknowledged PRC
\* and CSC, and then wrote all bits: the port is left with CCS, PED, PP and
\* the speed
C31_Witness ==
    /\ hist.attached = << "super1" >>
    /\ hist.portsc_writes = 3
    /\ hist.portsc_last = [tick |-> TRUE, array |-> "usb3", port_idx |-> 1,
                           value |-> 4194303]
    /\ xhci.portsc_usb3[1].value = CCS + PED + PP + Speed.Super * 1024

----------------------------------------------------------------------------
(* SpecRoute: several devices attached with set_device, slots enabled by
   the driver for the connected ports, doorbells of the slots (xhci.rs) *)

\* root-hub port numbers: the USB3 ports first, then the USB2 ports
RootHubPorts == 1..MAX_PORTS
PortscOfPort(x, port) ==
    IF port <= NUM_USB3_PORTS THEN x.portsc_usb3[port]
    ELSE x.portsc_usb2[port - NUM_USB3_PORTS]

RouteVarsUnchanged ==
    UNCHANGED << event_ring, mem_er, lock_er, poisoned_er, cur, wr_idx, drv, issued,
                 live, done, ctl_lock, command_ring, endpoints, wakeup, ring_mem,
                 ep_ctx, drvq, irqs, num_slots, running, dev_mem, bus, dynamic_bus,
                 register_set >>

\* set_device for a device that is not attached yet
RouteSetDevice(device) ==
    /\ ~xhci.panicked
    /\ pc[Mmio] = "idle"
    /\ device \notin {hist.attached[n] : n \in 1..Len(hist.attached)}
    /\ xhci' = XhciController_set_device(xhci, device)
    /\ hist' = [hist EXCEPT
                   !.attached = Append(@, device),
                   !.port_device = [port \in RootHubPorts |->
                                       IF PortscOfPort(xhci', port) # PortscOfPort(xhci, port)
                                       THEN device ELSE @[port]]]
    /\ UNCHANGED << pc, used_slots >>
    /\ RouteVarsUnchanged

\* the driver finds a device connected at a port that has no slot yet: its
\* Enable Slot command (handle_enable_slot, reserve_slot) gives it a slot,
\* which it addresses to that port (Address Device, Root Hub Port Number)
RouteEnableSlot(port) ==
    /\ ~xhci.panicked
    /\ pc[Mmio] = "idle"
    /\ and_u64(PortscOfPort(xhci, port).value, CCS) # 0
    /\ \A s \in used_slots : hist.slot_port[s] # port
    /\ LET slot == reserve_slot(num_slots, used_slots)
       IN /\ slot # 0
          /\ used_slots' = used_slots \cup {slot}
          /\ hist' = [hist EXCEPT !.slot_port[slot] = port]
    /\ UNCHANGED << xhci, pc >>
    /\ RouteVarsUnchanged

\* the device doorbell_device and check_control_endpoint hand the request
\* to: device_slots[slot_id - 1]
device_of_slot(x, slot_id) == x.device_slots[slot_id]

\* the device connected to the port the slot was addressed to
DeviceAtPortOfSlot(slot_id) == hist.port_device[hist.slot_port[slot_id]]

\* write_io(doorbell of slot_id, value): value 1 is the control endpoint
\* (check_control_endpoint, control_transfer), a larger one an endpoint
\* (device.transfer)
RouteDoorbell(slot_id, value) ==
    /\ ~xhci.panicked
    /\ pc[Mmio] = "idle"
    /\ slot_id \in used_slots
    /\ hist.route_doorbells < MaxRouteDoorbells
    /\ LET device == device_of_slot(xhci, slot_id)
       IN /\ pc' = IF device = "None" THEN [pc EXCEPT ![Mmio] = "dead"] ELSE pc
          /\ hist' = [hist EXCEPT !.route_doorbells = @ + 1,
                                  !.route_last = [tick |-> ~@.tick, slot_id |-> slot_id,
                                                  value |-> value, device |-> device]]
    /\ UNCHANGED << xhci, used_slots >>
    /\ RouteVarsUnchanged

\* a controller with a slot for every port and no device attached yet
InitRoute ==
    /\ event_ring = EventRingConfigured(ErstSizeSys)
    /\ mem_er = [a \in SlotAddrs |-> zeroed_trb_buffer]
    /\ lock_er = "none"
    /\ poisoned_er = FALSE
    /\ pc = [t \in Threads |-> "idle"]
    /\ cur = [t \in Threads |-> [op |-> "none"]]
    /\ wr_idx = [t \in Threads |-> 0]
    /\ drv = [deq |-> erst_base(0), cycle |-> TRUE, consumed |-> 0,
              seen |-> zeroed_trb_buffer]
    /\ issued = 0
    /\ live = {}
    /\ done = 0
    /\ ctl_lock = "none"
    /\ command_ring = [running |-> FALSE, dequeue_pointer |-> CmdRingBase,
                       cycle_state |-> TRUE]
    /\ used_slots = {}
    /\ endpoints = {}
    /\ wakeup = [ep \in EndpointIds |-> 0]
    /\ ring_mem = [a \in AllRingAddrs |-> EmptyTrb]
    /\ ep_ctx = [ep \in EndpointIds |-> [state |-> DISABLED, deq |-> 0]]
    /\ drvq = [enq |-> [r \in RingIds |-> RingBase(r)],
               cycle |-> [r \in RingIds |-> TRUE],
               posted |-> [r \in RingIds |-> 0],
               rings |-> 0,
               requests |-> 0]
    /\ irqs = [t \in Threads |-> 0]
    /\ num_slots = MAX_PORTS
    /\ running = FALSE
    /\ dev_mem = DevMemUnused
    /\ xhci = XhciController_new
    /\ hist = [HistInit EXCEPT !.port_device = [port \in RootHubPorts |-> "None"],
                               !.slot_port = [s \in 1..MAX_PORTS |-> 0]]
    /\ bus = BusUnused
    /\ dynamic_bus = BusUnused
    /\ register_set = BusUnused

NextRoute ==
    \/ \E device \in RealDevices : RouteSetDevice(device)
    \/ \E port \in RootHubPorts : RouteEnableSlot(port)
    \/ \E slot_id \in 1..MAX_PORTS, value \in 1..2 : RouteDoorbell(slot_id, value)

SpecRoute == InitRoute /\ [][NextRoute]_vars

(* C40 *)

----------------------------------------------------------------------------
(* SpecCompl: handle_command on commands of every variant, with the slot id
   their TRB carries (xhci.rs) *)

\* CommandTrbVariant, NoOp standing for the arms that are todo!()
CommandVariants == {"EnableSlot", "DisableSlot", "AddressDevice",
                    "ConfigureEndpoint", "StopEndpoint", "ResetDevice", "NoOp"}

\* the match of handle_command: the completion event of a command, the
\* slots reserved afterwards, or res = "Panic".  handler_ok says whether the
\* command's handler returns once get_device_context has passed its assert
\* that the slot is in use.
handle_command_match(cmd, num, used) ==
    LET slot == reserve_slot(num, used)
        completed(code, slot_id, now) ==
            [res |-> "Ok", used |-> now,
             event |-> new_command_completion_event_trb(cmd.address, 0, code, slot_id)]
        panic == [res |-> "Panic", used |-> used]
    IN CASE cmd.variant = "EnableSlot" ->
              IF slot # 0
              THEN completed(CompletionCode.Success, slot, used \cup {slot})
              ELSE completed(CompletionCode.NoSlotsAvailableError, 0, used)
         [] cmd.variant = "DisableSlot" ->
              completed(CompletionCode.Success, 1, used)
         [] cmd.variant \in {"AddressDevice", "ConfigureEndpoint", "StopEndpoint"} ->
              IF cmd.slot_id \in used /\ cmd.handler_ok
              THEN completed(CompletionCode.Success, cmd.slot_id, used)
              ELSE panic
         [] cmd.variant = "ResetDevice" ->
              completed(CompletionCode.Success, cmd.slot_id, used)
         [] OTHER -> panic

\* handle_command: the match, then fence, enqueue and interrupt
ComplHandle(variant, slot_id, handler_ok) ==
    /\ pc[Mmio] = "idle"
    /\ hist.compl_cmds < MaxComplCmds
    /\ LET cmd == [variant |-> variant, slot_id |-> slot_id, handler_ok |-> handler_ok,
                   address |-> CmdRingBase + TRB_SIZE * hist.compl_cmds]
           r == handle_command_match(cmd, num_slots, used_slots)
       IN /\ hist' = [hist EXCEPT !.compl_cmds = @ + 1,
                                  !.compl_last = [tick |-> ~@.tick, variant |-> variant,
                                                  slot_id |-> slot_id, res |-> r.res,
                                                  address |-> cmd.address,
                                                  at |-> event_ring.enqueue_pointer]]
          /\ used_slots' = r.used
          /\ IF r.res = "Panic" \/ check_event_ring_full(event_ring)
             THEN /\ pc' = [pc EXCEPT ![Mmio] = "dead"]
                  /\ UNCHANGED << mem_er, event_ring, irqs >>
             ELSE /\ mem_er' = write_bulk(mem_er, event_ring.enqueue_pointer,
                                          to_bytes(r.event, event_ring.cycle_state))
                  /\ event_ring' = advance_enqueue_pointer(
                                      [event_ring EXCEPT !.trb_count = @ - 1])
                  /\ irqs' = [irqs EXCEPT ![Mmio] = @ + 1]
                  /\ UNCHANGED pc
    /\ UNCHANGED << lock_er, poisoned_er, cur, wr_idx, drv, issued, live, done,
                    ctl_lock, command_ring, endpoints, wakeup, ring_mem, ep_ctx,
                    drvq, num_slots, running, dev_mem, bus, dynamic_bus,
                    register_set, xhci >>

NextCompl ==
    \E variant \in CommandVariants, slot_id \in 0..MaxNumSlots, handler_ok \in BOOLEAN :
        ComplHandle(variant, slot_id, handler_ok)

SpecCompl == InitSlots /\ [][NextCompl]_vars

(* C39 *)

\* a command was handled and its Command Completion event enqueued
ComplStep ==
    /\ hist'.compl_last.tick # hist.compl_last.tick
    /\ hist'.compl_last.res = "Ok"
    /\ pc'[Mmio] = "idle"

\* C39: the slot id of every Command Completion event is the slot id the
\* completed command's TRB carries, for Enable Slot the id reserved by it
\* or 0 when none was free; so the completion of Disable Slot for slot s
\* reports s, and Disable Slot leaves the set of reserved slots as it was.
C39_CompletionSlotId ==
    [][ComplStep =>
          LET last == hist'.compl_last
              event == mem_er'[last.at]
          IN /\ is_command_completion(event)
             /\ pointer_of(event) = last.address
             /\ IF last.variant = "EnableSlot"
                THEN \/ /\ completion_code_of(event) = CompletionCode.Success
                        /\ used_slots' \ used_slots = {slot_id_of(event)}
                     \/ /\ completion_code_of(event) = CompletionCode.NoSlotsAvailableError
                        /\ used_slots' = used_slots
                        /\ slot_id_of(event) = 0
                ELSE /\ slot_id_of(event) = last.slot_id
                     /\ used_slots' = used_slots]_vars

----------------------------------------------------------------------------
(* SpecIrq: set_irqs, connect_irq and the interrupt lines of the controller
   and of the endpoint workers (xhci_backend.rs, xhci.rs, nusb.rs) *)

\* the eventfds a vfio-user client passes to set_irqs
EventFds == {"eventfd1", "eventfd2"}

\* XhciController::connect_irq: the controller's Arc is replaced
connect_irq(x, irq) == [x EXCEPT !.interrupt_line = irq]

IrqVarsUnchanged ==
    UNCHANGED << event_ring, mem_er, lock_er, poisoned_er, wr_idx, drv, issued,
                 live, done, ctl_lock, command_ring, used_slots, wakeup, ring_mem,
                 ep_ctx, drvq, num_slots, running, dev_mem, bus, dynamic_bus,
                 register_set >>

\* XhciBackend::set_irqs: the asserts on index and count, an
\* InterruptEventFd of the first file or a DummyInterruptLine, connect_irq
set_irqs(valid, fds) ==
    /\ pc[Mmio] = "idle"
    /\ hist.irq_sets < MaxSetIrqs
    /\ IF valid
       THEN LET irq == IF fds # << >> THEN fds[1] ELSE "DummyInterruptLine"
            IN /\ xhci' = connect_irq(xhci, irq)
               \* the EndpointWorkerInfo of a spawned worker keeps its own
               \* clone of the Arc that was the controller's line before
               /\ hist' = [hist EXCEPT !.irq_installed =
                                           IF fds # << >> THEN fds[1] ELSE "none",
                                       !.irq_sets = @ + 1]
               /\ UNCHANGED pc
       ELSE /\ pc' = [pc EXCEPT ![Mmio] = "dead"]
            /\ hist' = [hist EXCEPT !.irq_sets = @ + 1]
            /\ UNCHANGED xhci
    /\ UNCHANGED << cur, endpoints, irqs >>
    /\ IrqVarsUnchanged

\* handle_configure_endpoint, one turn of its loop: the EndpointWorkerInfo
\* with a clone of the controller's line, enable_endpoint spawns the worker
IrqEnableEndpoint(w) ==
    /\ pc[Mmio] = "idle"
    /\ pc[w] = "idle"
    /\ endpoint_id[w] \notin endpoints
    /\ IF xhci.device_slots[1] = "None"
       THEN /\ pc' = [pc EXCEPT ![Mmio] = "dead"]
            /\ UNCHANGED << cur, endpoints >>
       ELSE /\ cur' = [cur EXCEPT ![w] = [op |-> "worker_info",
                                          interrupt_line |-> xhci.interrupt_line]]
            /\ endpoints' = endpoints \cup {endpoint_id[w]}
            /\ pc' = [pc EXCEPT ![w] = "fetch"]
    /\ UNCHANGED << xhci, irqs, hist >>
    /\ IrqVarsUnchanged

IrqRaised(t, line) ==
    /\ Len(hist.irq_raised) < MaxIrqs
    /\ irqs' = [irqs EXCEPT ![t] = @ + 1]
    /\ hist' = [hist EXCEPT !.irq_raised =
                   Append(@, [by |-> t, line |-> line, installed |-> hist.irq_installed])]

\* self.interrupt_line.interrupt() of handle_command and
\* check_control_endpoint
IrqController ==
    /\ pc[Mmio] = "idle"
    /\ IrqRaised(Mmio, xhci.interrupt_line)
    /\ UNCHANGED << xhci, pc, cur, endpoints >>
    /\ IrqVarsUnchanged

\* worker_info.interrupt_line.interrupt() of a worker after its Transfer
\* Event
IrqWorker(w) ==
    /\ pc[w] = "fetch"
    /\ IrqRaised(w, cur[w].interrupt_line)
    /\ UNCHANGED << xhci, pc, cur, endpoints >>
    /\ IrqVarsUnchanged

\* a controller with one device attached, no interrupt installed yet
InitIrq ==
    /\ event_ring = EventRingConfigured(ErstSizeSys)
    /\ mem_er = [a \in SlotAddrs |-> zeroed_trb_buffer]
    /\ lock_er = "none"
    /\ poisoned_er = FALSE
    /\ pc = [t \in Threads |-> "idle"]
    /\ cur = [t \in Threads |-> [op |-> "none"]]
    /\ wr_idx = [t \in Threads |-> 0]
    /\ drv = [deq |-> erst_base(0), cycle |-> TRUE, consumed |-> 0,
              seen |-> zeroed_trb_buffer]
    /\ issued = 0
    /\ live = {}
    /\ done = 0
    /\ ctl_lock = "none"
    /\ command_ring = [running |-> FALSE, dequeue_pointer |-> CmdRingBase,
                       cycle_state |-> TRUE]
    /\ used_slots = {1}
    /\ endpoints = {}
    /\ wakeup = [ep \in EndpointIds |-> 0]
    /\ ring_mem = [a \in AllRingAddrs |-> EmptyTrb]
    /\ ep_ctx = [ep \in EndpointIds |-> [state |-> DISABLED, deq |-> 0]]
    /\ drvq = [enq |-> [r \in RingIds |-> RingBase(r)],
               cycle |-> [r \in RingIds |-> TRUE],
               posted |-> [r \in RingIds |-> 0],
               rings |-> 0,
               requests |-> 0]
    /\ irqs = [t \in Threads |-> 0]
    /\ num_slots = MAX_SLOTS
    /\ running = FALSE
    /\ dev_mem = DevMemUnused
    /\ xhci = XhciController_set_device(XhciController_new, "super1")
    /\ hist = [HistInit EXCEPT !.attached = << "super1" >>]
    /\ bus = BusUnused
    /\ dynamic_bus = BusUnused
    /\ register_set = BusUnused

NextIrq ==
    \/ \E valid \in BOOLEAN, fds \in {<< >>} \cup { << f >> : f \in EventFds } :
          set_irqs(valid, fds)
    \/ \E w \in Workers : IrqEnableEndpoint(w)
    \/ IrqController
    \/ \E w \in Workers : IrqWorker(w)

SpecIrq == InitIrq /\ [][NextIrq]_vars

(* C38 *)

\* C38: after set_irqs has installed an eventfd, every interrupt raised
\* afterwards, by the controller or by an endpoint worker (also one spawned
\* by a Configure Endpoint handled before that set_irqs), is written to
\* that eventfd.
C38_InterruptsReachEventFd ==
    \A n \in 1..Len(hist.irq_raised) :
        hist.irq_raised[n].installed \in EventFds =>
            hist.irq_raised[n].line = hist.irq_raised[n].installed

(* C20 *)

\* guest address of the Event Ring Segment Table
ErstTableAddr == 0

\* values the driver writes to ERSTSZ and to ERSTBA (one aligned address,
\* where the table is, and one that is not 64-byte aligned)
ErstszValues == 0..3
ErstbaValues == {ErstTableAddr, ErstTableAddr + 32}

\* EventRing::new
EventRing_new ==
    [base_address |-> 0,
     dequeue_pointer |-> 0,
     enqueue_pointer |-> 0,
     trb_count |-> 0,
     erst_count |-> 0,
     cycle_state |-> FALSE,
     erst_size |-> 0]

\* EventRing::set_erst_size, past its assert
set_erst_size(er, size) ==
    [er EXCEPT !.erst_size = size,
               !.erst_count = IF er.erst_count >= size THEN 0 ELSE er.erst_count]

\* dma_bus.read of the first table entry at erstba; guest memory holds the
\* table at ErstTableAddr and zeroes elsewhere
erst_entry0(erstba) ==
    IF erstba = ErstTableAddr THEN ERST[1] ELSE [base |-> 0, size |-> 0]

\* EventRing::configure, past its two asserts
configure(er, erstba) ==
    [er EXCEPT !.base_address = erstba,
               !.enqueue_pointer = erst_entry0(erstba).base,
               !.trb_count = erst_entry0(erstba).size,
               !.cycle_state = TRUE]

\* a panic inside write_io while both guards are held: both mutexes are
\* left poisoned and the MMIO thread is gone
cfg_panic ==
    /\ pc' = [pc EXCEPT ![Mmio] = "dead"]
    /\ poisoned_er' = TRUE
    /\ UNCHANGED event_ring

\* write_io(ERSTSZ, value): event_ring.lock().unwrap().set_erst_size(sz)
write_io_erstsz(value) ==
    /\ pc[Mmio] = "idle"
    /\ lock_er = "none"
    /\ Len(hist.cfg) < MaxCfgWrites
    /\ hist' = [hist EXCEPT !.cfg = Append(@, [reg |-> "ERSTSZ", value |-> value])]
    /\ LET sz == value % 65536
       IN IF poisoned_er \/ ~(sz >= 1)
          THEN cfg_panic
          ELSE /\ event_ring' = set_erst_size(event_ring, sz)
               /\ UNCHANGED << pc, poisoned_er >>
    /\ UNCHANGED << mem_er, lock_er, cur, wr_idx, drv, issued, live, done, irqs >>
    /\ UNCHANGED << ctl_lock, command_ring, used_slots, endpoints, wakeup, ring_mem,
                    ep_ctx, drvq >>
    /\ UNCHANGED regvars

\* write_io(ERSTBA, value): event_ring.lock().unwrap().configure(value)
write_io_erstba(value) ==
    /\ pc[Mmio] = "idle"
    /\ lock_er = "none"
    /\ Len(hist.cfg) < MaxCfgWrites
    /\ hist' = [hist EXCEPT !.cfg = Append(@, [reg |-> "ERSTBA", value |-> value])]
    /\ IF poisoned_er \/ value % 64 # 0 \/ ~(event_ring.erst_size > 0)
       THEN cfg_panic
       ELSE /\ event_ring' = configure(event_ring, value)
            /\ UNCHANGED << pc, poisoned_er >>
    /\ UNCHANGED << mem_er, lock_er, cur, wr_idx, drv, issued, live, done, irqs >>
    /\ UNCHANGED << ctl_lock, command_ring, used_slots, endpoints, wakeup, ring_mem,
                    ep_ctx, drvq >>
    /\ UNCHANGED regvars

\* the MMIO thread enqueues an event on the ring the driver has set up
CfgCall ==
    /\ event_ring.trb_count > 0
    /\ ER_Call(Mmio)

\* state after EventRing::new; the driver has written no register yet
InitCfg ==
    /\ event_ring = EventRing_new
    /\ mem_er = [a \in SlotAddrs |-> zeroed_trb_buffer]
    /\ lock_er = "none"
    /\ poisoned_er = FALSE
    /\ pc = [t \in Threads |-> "idle"]
    /\ cur = [t \in Threads |-> [op |-> "none"]]
    /\ wr_idx = [t \in Threads |-> 0]
    /\ drv = [deq |-> erst_base(0), cycle |-> TRUE, consumed |-> 0,
              seen |-> zeroed_trb_buffer]
    /\ issued = 0
    /\ live = {}
    /\ done = 0
    /\ SysVarsInit

NextCfg ==
    \/ \E value \in ErstszValues : write_io_erstsz(value)
    \/ \E value \in ErstbaValues : write_io_erstba(value)
    \/ CfgCall
    \/ ER_ErdpWrite
    \/ event_ring_lock(Mmio)
    \/ enqueue_write(Mmio)
    \/ enqueue_advance(Mmio)
    \/ erdp_update(Mmio)
    \/ event_ring_unlock(Mmio)
    \/ interrupt(Mmio)

SpecCfg == InitCfg /\ [][NextCfg]_vars

\* a value of at least 1 has been written to ERSTSZ
ErstszWritten == \E i \in 1..Len(hist.cfg) :
                    hist.cfg[i].reg = "ERSTSZ" /\ hist.cfg[i].value >= 1

C20_ErstbaWrite ==
    \A erstba \in ErstbaValues :
        hist'.cfg = Append(hist.cfg, [reg |-> "ERSTBA", value |-> erstba]) =>
            IF ErstszWritten /\ erstba % 64 = 0
            THEN /\ pc'[Mmio] = "idle"
                 /\ event_ring'.enqueue_pointer = erst_base(0)
                 /\ event_ring'.trb_count = erst_size_of(0)
                 /\ event_ring'.erst_count = 0
                 /\ event_ring'.cycle_state = TRUE
            ELSE /\ pc'[Mmio] = "dead"
                 /\ event_ring' = event_ring

\* C20: an ERSTBA write succeeds only if a value of at least 1 was written
\* to ERSTSZ before and the address is 64-byte aligned, and otherwise fails
\* without changing the ring; after every successful ERSTBA write, also a
\* repeated one on a ring that has advanced, the enqueue pointer is
\* ERST[0].base, the remaining count ERST[0].size, the segment index 0 and
\* the producer cycle 1.
C20_ConfigurePositionsAtSegment0 == [][C20_ErstbaWrite]_vars

(* C4 *)

\* C4: with a static ERST and a driver that advances ERDP in ring order over
\* written events only, no enqueue writes into a slot whose event the driver
\* has not consumed, and the ring is declared full exactly when ERDP is the
\* position following the enqueue pointer in ring order.
C4_NoOverwriteOfUnconsumed ==
    /\ \A x, y \in live : x.slot = y.slot => x.id = y.id
    /\ check_event_ring_full(event_ring)
          <=> (event_ring.dequeue_pointer = NextSlot(event_ring.enqueue_pointer))

\* the ring has wrapped, a slot of the first pass is being reused while
\* other events are still unconsumed, and ERDP has been moved by the driver
C4_Witness ==
    /\ done >= RingLen
    /\ \E x \in live : x.id > RingLen
    /\ Cardinality(live) >= 2
    /\ event_ring.dequeue_pointer # erst_base(0)

(* C17 *)

\* index in the segment table of the segment that holds slot a
SegmentOf(a) ==
    CHOOSE i \in 0..(event_ring.erst_size - 1) :
        erst_base(i) <= a /\ a < erst_base(i) + erst_size_of(i) * TRB_SIZE

\* a thread has written its TRB and not yet advanced the enqueue pointer
MidEnqueue == \E t \in Threads : pc[t] = "advance"

\* C17: with a static segment table and a ring that never becomes full, the
\* enqueues go through the slots in segment order: after n enqueues the
\* enqueue pointer is at slot (n mod ring length) of the ring, the segment
\* index and the remaining count are those of that slot, and the producer
\* cycle has flipped once per completed pass (so after exactly one pass the
\* pointer is back at ERST[0].base with segment index 0); and the TRB of the
\* enqueue in progress was written at that slot with the producer cycle.
C17_SegmentOrderAndCycle ==
    LET at == RingSlots[(done % RingLen) + 1]
        seg == SegmentOf(at)
        cycle == (done \div RingLen) % 2 = 0
    IN IF MidEnqueue
       THEN \A t \in Threads : pc[t] = "advance" =>
               /\ event_ring.enqueue_pointer = at
               /\ event_ring.cycle_state = cycle
               /\ mem_er[at] = to_bytes(cur[t].trb, cycle)
       ELSE /\ event_ring.enqueue_pointer = at
            /\ event_ring.erst_count = seg
            /\ event_ring.trb_count =
                  erst_size_of(seg) - ((at - erst_base(seg)) \div TRB_SIZE)
            /\ event_ring.cycle_state = cycle

\* exactly one pass has been enqueued: the ring is back at ERST[0].base with
\* the producer cycle flipped
C17_Witness ==
    /\ done = RingLen
    /\ ~MidEnqueue
    /\ event_ring.enqueue_pointer = erst_base(0)
    /\ event_ring.erst_count = 0
    /\ event_ring.cycle_state = FALSE

(* C18 *)

\* C18 as stated: right after the enqueue that completes the first pass,
\* the TRB at ERST[0].base carries the flipped producer cycle.
C18_FlippedCycleAtBase ==
    (done = RingLen /\ ~MidEnqueue) =>
        cycle_bit_of(mem_er[erst_base(0)]) = event_ring.cycle_state

\* C18 amended: right after the enqueue that completes the first pass the
\* TRB at ERST[0].base still carries the cycle of the first pass, the
\* inverse of the producer cycle; it carries the flipped producer cycle
\* once one more event has been enqueued.
C18_FlippedCycleAfterNextEnqueue ==
    ~MidEnqueue =>
        /\ done = RingLen =>
              cycle_bit_of(mem_er[erst_base(0)]) = ~event_ring.cycle_state
        /\ done = RingLen + 1 =>
              cycle_bit_of(mem_er[erst_base(0)]) = event_ring.cycle_state

\* the first event of the second pass has been written at ERST[0].base
C18_Witness ==
    /\ done = RingLen + 1
    /\ ~MidEnqueue
    /\ ~cycle_bit_of(mem_er[erst_base(0)])
    /\ ~event_ring.cycle_state

(* C19 *)

\* the ring is full: the slot after the enqueue pointer is the one the
\* driver's dequeue pointer is at
RingFull == event_ring.dequeue_pointer = NextSlot(event_ring.enqueue_pointer)

C19_FailsBeforeWrite ==
    \A t \in Threads :
        (pc[t] = "write" /\ pc'[t] # "write" /\ RingFull) =>
            /\ mem_er' = mem_er
            /\ event_ring' = event_ring
            /\ live' = live
            /\ done' = done
            /\ pc'[t] = "dead"

\* C19: an enqueue that finds the event ring full fails before its DMA
\* write: guest memory and the ring's enqueue pointer, remaining count,
\* segment index and producer cycle stay as they are, no pending event is
\* written over, and the enqueueing thread aborts (todo! panics).
C19_FullRingEnqueueFails == [][C19_FailsBeforeWrite]_vars

\* an enqueue has found the ring full and its thread has aborted, with the
\* pending events still in place
C19_Witness ==
    /\ \E t \in Threads : pc[t] = "dead"
    /\ poisoned_er
    /\ RingFull
    /\ live # {}

----------------------------------------------------------------------------
(* ERSTSZ rewritten while the event ring is in use (rings.rs) *)

\* SpecSeg: number of writes to ERSTSZ after the ring was configured
MaxSegWrites == 2

\* the table entry (0-based) whose segment holds address a
segment_at(a) ==
    CHOOSE i \in 0..(Len(ERST) - 1) :
        erst_base(i) <= a /\ a < erst_base(i) + erst_size_of(i) * TRB_SIZE

SegVarsUnchanged ==
    UNCHANGED << lock_er, cur, wr_idx, drv, issued, live, done, ctl_lock,
                 command_ring, used_slots, endpoints, wakeup, ring_mem, ep_ctx,
                 drvq, irqs, num_slots, running, dev_mem, bus, dynamic_bus,
                 register_set, xhci >>

\* write_io(ERSTSZ, value) with the event-ring mutex free
SegErstsz(value) ==
    /\ pc[Mmio] = "idle"
    /\ hist.seg_writes < MaxSegWrites
    /\ hist' = [hist EXCEPT !.seg_writes = @ + 1,
                            !.seg_last = [tick |-> ~@.tick, op |-> "erstsz",
                                          value |-> value]]
    /\ IF ~(value >= 1)
       THEN cfg_panic
       ELSE /\ event_ring' = set_erst_size(event_ring, value)
            /\ UNCHANGED << pc, poisoned_er >>
    /\ UNCHANGED mem_er
    /\ SegVarsUnchanged

\* EventRing::enqueue, called with the mutex held
SegEnqueue ==
    /\ pc[Mmio] = "idle"
    /\ hist' = [hist EXCEPT !.seg_last = [tick |-> ~@.tick, op |-> "enqueue"]]
    /\ IF check_event_ring_full(event_ring)
       THEN /\ cfg_panic
            /\ UNCHANGED mem_er
       ELSE /\ mem_er' = write_bulk(mem_er, event_ring.enqueue_pointer,
                                    to_bytes(EventOf(Mmio, 1), event_ring.cycle_state))
            /\ event_ring' = advance_enqueue_pointer(
                                [event_ring EXCEPT !.trb_count = @ - 1])
            /\ UNCHANGED << pc, poisoned_er >>
    /\ SegVarsUnchanged

\* write_io(ERDP, value) by a driver that has handled every event written
SegErdp ==
    /\ pc[Mmio] = "idle"
    /\ event_ring.dequeue_pointer # event_ring.enqueue_pointer
    /\ event_ring' = update_dequeue_pointer(event_ring, event_ring.enqueue_pointer)
    /\ UNCHANGED << mem_er, pc, poisoned_er, hist >>
    /\ SegVarsUnchanged

\* the ring as the driver configured it, with one to three segments
InitSeg ==
    /\ \E n \in 1..Len(ERST) : event_ring = EventRingConfigured(n)
    /\ mem_er = [a \in SlotAddrs |-> zeroed_trb_buffer]
    /\ lock_er = "none"
    /\ poisoned_er = FALSE
    /\ pc = [t \in Threads |-> "idle"]
    /\ cur = [t \in Threads |-> [op |-> "none"]]
    /\ wr_idx = [t \in Threads |-> 0]
    /\ drv = [deq |-> erst_base(0), cycle |-> TRUE, consumed |-> 0,
              seen |-> zeroed_trb_buffer]
    /\ issued = 0
    /\ live = {}
    /\ done = 0
    /\ SysVarsInit

NextSeg ==
    \/ \E value \in ErstszValues : SegErstsz(value)
    \/ SegEnqueue
    \/ SegErdp

SpecSeg == InitSeg /\ [][NextSeg]_vars

(* C32 *)
SegStep(op) == hist'.seg_last.tick # hist.seg_last.tick /\ hist'.seg_last.op = op
\* C32: a write to ERSTSZ leaves the producer where it is in its segment;
\* the segment index is below ERSTSZ in every state; an enqueue that fills
\* segment i of a ring of m segments moves the producer to segment i+1 with
\* the cycle state kept if i+1 < m, and to segment 0 with the cycle state
\* flipped otherwise.
C32_SegmentSwitchAfterResize ==
    [][/\ event_ring'.erst_count < event_ring'.erst_size
       /\ SegStep("erstsz") /\ pc'[Mmio] = "idle" =>
             /\ event_ring'.enqueue_pointer = event_ring.enqueue_pointer
             /\ event_ring'.trb_count = event_ring.trb_count
             /\ event_ring'.cycle_state = event_ring.cycle_state
       /\ SegStep("enqueue") /\ pc'[Mmio] = "idle" /\ event_ring.trb_count = 1 =>
             LET i == segment_at(event_ring.enqueue_pointer)
                 m == event_ring.erst_size
             IN IF i + 1 < m
                THEN /\ event_ring'.enqueue_pointer = erst_base(i + 1)
                     /\ event_ring'.cycle_state = event_ring.cycle_state
                ELSE /\ event_ring'.enqueue_pointer = erst_base(0)
                     /\ event_ring'.cycle_state = ~event_ring.cycle_state]_vars

(* C7 *)

\* C7: enqueues of the MMIO thread and of the workers are serialized by the
\* event-ring mutex: every written, unconsumed event is intact in a slot of
\* its own, none is lost, and the enqueue position, segment index and
\* producer cycle advance by exactly one slot per enqueue.
C7_EnqueuesSerialized ==
    /\ \A x \in live : pointer_of(mem_er[x.slot]) = TRB_SIZE * x.id
    /\ Cardinality(live) + drv.consumed
          = done + Cardinality({t \in Threads : pc[t] = "advance"})
    /\ SlotIndex(event_ring.enqueue_pointer) - 1 = done % RingLen
    /\ event_ring.cycle_state = ((done \div RingLen) % 2 = 0)
    /\ event_ring.enqueue_pointer
          = erst_base(event_ring.erst_count)
            + (erst_size_of(event_ring.erst_count) - event_ring.trb_count) * TRB_SIZE

\* one thread is inside enqueue holding the mutex while two others wait for
\* it, after an earlier enqueue has completed
C7_Witness ==
    /\ \E t \in Threads : lock_er = t /\ pc[t] = "advance"
    /\ Cardinality({t \in Threads : pc[t] = "lock"}) = 2
    /\ done >= 1

----------------------------------------------------------------------------
(* SpecBytes: EventRing::enqueue at the granularity of write_bulk's stores *)

\* the 16 bytes enqueue hands to dma_bus.write_bulk for the caller's event
enqueue_data(t) == to_bytes(cur[t].trb, event_ring.cycle_state)

\* rings.rs 208-210: the fullness test that precedes the write
enqueue_check_full(t) ==
    /\ pc[t] = "write"
    /\ IF check_event_ring_full(event_ring)
       THEN /\ pc' = [pc EXCEPT ![t] = "dead"]
            /\ poisoned_er' = TRUE
            /\ lock_er' = "none"
            /\ UNCHANGED wr_idx
       ELSE /\ pc' = [pc EXCEPT ![t] = "bytes"]
            /\ wr_idx' = [wr_idx EXCEPT ![t] = 0]
            /\ UNCHANGED << poisoned_er, lock_er >>
    /\ UNCHANGED << event_ring, mem_er, cur, drv, issued, live, done >>
    /\ UNCHANGED << sysvars, irqs >>
    /\ UNCHANGED regvars

\* bus.rs 224-240: the next iteration of write_bulk's loop, one
\* MemorySegment::write of Size1 (a relaxed atomic store)
write_bulk_store(t) ==
    /\ pc[t] = "bytes"
    /\ mem_er' = write_byte(mem_er, event_ring.enqueue_pointer, enqueue_data(t), wr_idx[t])
    /\ wr_idx' = [wr_idx EXCEPT ![t] = wr_idx[t] + 1]
    /\ IF wr_idx[t] = TRB_SIZE - 1
       THEN /\ pc' = [pc EXCEPT ![t] = "advance"]
            /\ live' = live \cup {[id |-> cur[t].id, slot |-> event_ring.enqueue_pointer]}
       ELSE UNCHANGED << pc, live >>
    /\ UNCHANGED << event_ring, lock_er, poisoned_er, cur, drv, issued, done >>
    /\ UNCHANGED << sysvars, irqs >>
    /\ UNCHANGED regvars

\* a caller of enqueue in SpecBytes
B_Call(t) ==
    /\ pc[t] = "idle"
    /\ issued < MaxByteEnq
    /\ issued' = issued + 1
    /\ cur' = [cur EXCEPT ![t] = [op |-> "enqueue", id |-> issued + 1,
                                  trb |-> EventOf(t, issued + 1),
                                  ret |-> "idle"]]
    /\ pc' = [pc EXCEPT ![t] = "lock"]
    /\ UNCHANGED << event_ring, mem_er, lock_er, poisoned_er, wr_idx, drv, live, done >>
    /\ UNCHANGED << sysvars, irqs >>
    /\ UNCHANGED regvars

NextBytes ==
    \/ \E t \in Threads : B_Call(t)
    \/ \E t \in Threads : event_ring_lock(t)
    \/ \E t \in Threads : enqueue_check_full(t)
    \/ \E t \in Threads : write_bulk_store(t)
    \/ \E t \in Threads : enqueue_advance(t)
    \/ \E t \in Threads : event_ring_unlock(t)
    \/ \E t \in Threads : interrupt(t)
    \/ DrvConsume

SpecBytes == InitER /\ [][NextBytes]_vars

(* C2 *)

\* C2: the driver, loading an event-ring slot concurrently with an enqueue
\* into it, never sees the cycle bit (byte 12 bit 0) of the new producer
\* cycle while another byte of the slot is still pre-enqueue content: every
\* TRB it accepts by its cycle bit is, in all 16 bytes, an enqueued event.
C2_CycleByteCommittedLast ==
    drv.consumed > 0 =>
        \E t \in Threads, id \in 1..issued, c \in BOOLEAN :
            drv.seen = to_bytes(EventOf(t, id), c)

====
